---- MODULE Spec2Model ----
(***************************************************************************)
(* Symbion kernel: plugin supervisor (plugins.rs), notes request/response  *)
(* bridge (notes_bridge.rs) and agent registry (agents.rs).                *)
(*                                                                         *)
(* Time is in whole seconds.  A child process handle is None, "alive" or   *)
(* "exited" (the child has exited and has not been reaped by try_wait).    *)
(* The reason string carried by PluginStatus::Failed is not modelled; the  *)
(* fields started_at, last_activity and instance_id, which no modelled     *)
(* operation reads, are left out.                                          *)
(***************************************************************************)
EXTENDS Integers, Sequences, FiniteSets, TLC

VARIABLES
    plugins,    \* PluginManager.plugins: name -> PluginInstance
    batch,      \* locals of the running start_plugins_ordered / stop_plugins_ordered
    result,     \* value returned by the last PluginManager call
    now,        \* wall clock, seconds
    pending,    \* NotesBridge.pending_requests: the request ids holding a sender
    requests,   \* the send_command calls, by request id
    last_response, \* the last response given to handle_response and whether its id was pending
    agents,     \* AgentRegistry.agents
    snapshot,   \* content of the agents data file
    sweeper,    \* locals of the monitoring task
    listener,   \* locals of the task handling agent messages
    bus,        \* the agent commands published on the broker, in order
    issued,     \* how many command ids Uuid::new_v4 has produced
    reply,      \* value returned by the last AgentRegistry::send_command call
    stopping,   \* locals of the PluginInstance::stop call in progress
    http,       \* the operator's HTTP request on the plugin routes
    tasks,      \* the kernel's background tasks: where each one stands
    arg,        \* argument of the function under examination
    ret         \* what it returned

supervisorVars == <<plugins, batch, result>>
bridgeVars == <<pending, requests, last_response>>
busVars == <<bus, issued, reply>>
registryVars == <<agents, snapshot, sweeper, listener, busVars>>
auxVars == <<stopping, http, tasks, arg, ret>>
vars == <<supervisorVars, bridgeVars, registryVars, now, auxVars>>

\* Option<T>: None is the empty sequence, Some(x) the one-element sequence
None == <<>>
Some(x) == <<x>>
\* PluginInstance.process without a child
NoProcess == "none"

\* no stop in progress, no request in flight, the tasks as main spawns them
Stop_idle ==
    [pc |-> "idle", name |-> "", timeout_ms |-> 0, elapsed |-> 0,
     child |-> "none", exited_at |-> None, signals |-> <<>>]
Http_idle == [pc |-> "idle", handler |-> "", status |-> 0, waited |-> FALSE]
\* the background tasks main spawns; notes: the listener is subscribed to
\* the notes responses; errors: the poll errors the listener has logged
Tasks_init ==
    [listener |-> "subscribing", sweeper |-> "running", monitor |-> "running",
     notes |-> FALSE, errors |-> 0]

\* ------------------------------------------------------------------ bounds
MaxTicks == 2
MaxRestarts == 6
MaxRequests == 2
MaxBridgeSecs == 5
MaxSweepTicks == 3
MaxCommands == 3
MaxFailureCount == 8
MaxQuietHours == 2
MaxLoopErrors == 2
MaxCommandLen == 4
MaxTopicLen == 7

\* --------------------------------------------------------------- constants
HealthIntervalSecs == 30
DegradedCooldownSecs == 60
CircuitOpenCooldownSecs == 300
DegradedThreshold == 3
CircuitOpenThreshold == 6
DefaultPriority == 999
ExtraIterations == 5
BridgeTimeoutSecs == 5
SweepIntervalSecs == 60
StaleTimeoutMinutes == 2

\* ------------------------------------------------------- manifests (inputs)
Manifest(name, auto, rof, deps, prio) ==
    [name |-> name, version |-> "1.0.0", auto_start |-> auto,
     restart_on_failure |-> rof, depends_on |-> deps, start_priority |-> prio]

\* mutant: a new instance records a placeholder as its last working manifest
PluginInstance_new_prefilled(m) ==
    [manifest |-> m, process |-> NoProcess, status |-> "Stopped",
     restart_count |-> 0, last_restart_attempt |-> None,
     circuit_state |-> "Normal",
     last_working_manifest |-> Some([m EXCEPT !.version = "0.0.0"])]

\* PluginInstance::new
PluginInstance_new(m) ==
    [manifest |-> m, process |-> NoProcess, status |-> "Stopped",
     restart_count |-> 0, last_restart_attempt |-> None,
     circuit_state |-> "Normal", last_working_manifest |-> None]

\* Manifest directories the supervisor is booted with.
LifecycleManifests ==
    { [a |-> Manifest("a", TRUE, TRUE, <<>>, 10)],
      [a |-> Manifest("a", TRUE, FALSE, <<>>, 10)] }

OrderedManifests ==
    { \* a <- b <- c chain with priorities against the dependency order
      [a |-> Manifest("a", TRUE, FALSE, <<>>, 10),
       b |-> Manifest("b", TRUE, FALSE, <<"a">>, 50),
       c |-> Manifest("c", TRUE, FALSE, <<"a", "b">>, 20)],
      \* a dependency cycle and an independent plugin
      [a |-> Manifest("a", TRUE, FALSE, <<"b">>, 10),
       b |-> Manifest("b", TRUE, FALSE, <<"a">>, 50),
       c |-> Manifest("c", TRUE, FALSE, <<>>, 20)],
      \* a dependency on a plugin the supervisor does not know
      [a |-> Manifest("a", TRUE, FALSE, <<>>, 30),
       b |-> Manifest("b", TRUE, FALSE, <<"ghost">>, 10),
       c |-> Manifest("c", FALSE, FALSE, <<"a">>, 20)] }

Names == DOMAIN plugins
\* names an operator may pass: the known plugins and one unknown name
OperatorNames == Names \cup {"ghost"}

StopOutcomes == {"exited", "timeout", "sigterm_failed", "wait_error"}

\* ------------------------------------------------------- PluginInstance
\* mutant: the thresholds are taken one failure late
update_circuit_state_late(p, t) ==
    LET q == [p EXCEPT !.last_restart_attempt = Some(t)] IN
    IF p.restart_count <= DegradedThreshold
    THEN [q EXCEPT !.circuit_state = "Normal"]
    ELSE IF p.restart_count <= CircuitOpenThreshold
    THEN [q EXCEPT !.circuit_state = "Degraded"]
    ELSE [q EXCEPT !.circuit_state = "CircuitOpen", !.status = "SafeMode"]

update_circuit_state(p, t) ==
    LET q == [p EXCEPT !.last_restart_attempt = Some(t)] IN
    IF p.restart_count < DegradedThreshold
    THEN [q EXCEPT !.circuit_state = "Normal"]
    ELSE IF p.restart_count < CircuitOpenThreshold
    THEN [q EXCEPT !.circuit_state = "Degraded"]
    ELSE [q EXCEPT !.circuit_state = "CircuitOpen", !.status = "SafeMode"]

can_restart(p, t) ==
    CASE p.circuit_state = "Normal" -> TRUE
      [] p.circuit_state = "Degraded" ->
            IF p.last_restart_attempt # None
            THEN t - p.last_restart_attempt[1] >= DegradedCooldownSecs
            ELSE TRUE
      [] p.circuit_state = "CircuitOpen" ->
            IF p.last_restart_attempt # None
            THEN t - p.last_restart_attempt[1] >= CircuitOpenCooldownSecs
            ELSE FALSE

\* mutant: a successful spawn clears the restart counter
start_clears_count(p, spawnOk, t) ==
    IF p.status \in {"Running", "Starting"}
    THEN [inst |-> p, res |-> "AlreadyLoaded"]
    ELSE IF spawnOk
    THEN [inst |-> [p EXCEPT !.process = "alive", !.status = "Running",
                             !.last_working_manifest = Some(p.manifest),
                             !.circuit_state = "Normal",
                             !.restart_count = 0],
          res |-> "Ok"]
    ELSE [inst |-> update_circuit_state([p EXCEPT !.status = "Failed"], t),
          res |-> "StartFailed"]

\* spawnOk: whether Command::spawn succeeds.  Returns the instance and Result.
start(p, spawnOk, t) ==
    IF p.status \in {"Running", "Starting"}
    THEN [inst |-> p, res |-> "AlreadyLoaded"]
    ELSE IF spawnOk
    THEN [inst |-> [p EXCEPT !.process = "alive", !.status = "Running",
                             !.last_working_manifest = Some(p.manifest),
                             !.circuit_state = "Normal"],
          res |-> "Ok"]
    ELSE [inst |-> update_circuit_state([p EXCEPT !.status = "Failed"], t),
          res |-> "StartFailed"]

\* outcome: what the kill / try_wait loop observes of the child.
stop(p, outcome) ==
    IF p.process # NoProcess
    THEN CASE outcome = "sigterm_failed" ->
                [inst |-> [p EXCEPT !.process = NoProcess, !.status = "Failed"],
                 res |-> "StartFailed"]
           [] outcome = "wait_error" ->
                [inst |-> [p EXCEPT !.process = NoProcess, !.status = "Failed"],
                 res |-> "StartFailed"]
           [] outcome = "timeout" ->
                [inst |-> [p EXCEPT !.process = NoProcess, !.status = "Killed"],
                 res |-> "Ok"]
           [] outcome = "exited" ->
                [inst |-> [p EXCEPT !.process = NoProcess, !.status = "Stopped"],
                 res |-> "Ok"]
    ELSE [inst |-> [p EXCEPT !.status = "Stopped"], res |-> "Ok"]

\* a child that has already exited is seen by the first try_wait
StopOutcomesOf(p) ==
    IF p.process = "alive" THEN StopOutcomes
    ELSE {"exited"}

\* mutant: a child found exited is marked Failed and its handle is kept
check_health_keeps_handle(p) ==
    IF p.process = NoProcess THEN [inst |-> p, healthy |-> FALSE]
    ELSE IF p.process = "exited"
    THEN [inst |-> [p EXCEPT !.status = "Failed"], healthy |-> FALSE]
    ELSE [inst |-> p, healthy |-> TRUE]

check_health(p) ==
    IF p.process = "exited"
    THEN [inst |-> [p EXCEPT !.status = "Failed", !.process = NoProcess], healthy |-> FALSE]
    ELSE IF p.process = "alive"
    THEN [inst |-> p, healthy |-> TRUE]
    ELSE [inst |-> p, healthy |-> FALSE]

attempt_rollback(p, spawnOk, t) ==
    IF p.last_working_manifest # None
    THEN LET current_manifest == p.manifest
             r == start([p EXCEPT !.manifest = p.last_working_manifest[1]], spawnOk, t)
         IN IF r.res = "Ok" THEN r
            ELSE [inst |-> [r.inst EXCEPT !.manifest = current_manifest], res |-> r.res]
    ELSE [inst |-> p, res |-> "StartFailed"]

\* ------------------------------------------------------- PluginManager
\* mutant: the restart is not counted
restart_instance_uncounted(p, outcome, spawnOk, t) ==
    start(stop(p, outcome).inst, spawnOk, t)

\* body of restart_plugin for a known plugin: stop, count, start
restart_instance(p, outcome, spawnOk, t) ==
    LET s == stop(p, outcome).inst
    IN start([s EXCEPT !.restart_count = @ + 1], spawnOk, t)

\* --- helpers for Vec / HashMap
RemoveAt(s, i) == [k \in 1..(Len(s) - 1) |-> IF k < i THEN s[k] ELSE s[k + 1]]

\* the orders in which a HashMap may yield the members of S
Orders(S) ==
    {s \in [1..Cardinality(S) -> S] : \A i, j \in 1..Cardinality(S) : i # j => s[i] # s[j]}

priority_key(ps, name) ==
    IF name \in DOMAIN ps THEN ps[name].manifest.start_priority ELSE DefaultPriority

RECURSIVE sort_by_key(_, _)
\* Vec::sort_by_key is a stable sort
sort_by_key(s, ps) ==
    IF s = <<>> THEN <<>>
    ELSE LET x == Head(s)
             t == sort_by_key(Tail(s), ps)
         IN SelectSeq(t, LAMBDA y : priority_key(ps, y) < priority_key(ps, x))
            \o <<x>>
            \o SelectSeq(t, LAMBDA y : priority_key(ps, y) >= priority_key(ps, x))

SeqToSet(s) == {s[k] : k \in 1..Len(s)}

Idle == batch.pc = "idle"
\* targets: the set of names the batch was called with; calls: the names start_plugin
\* (stop_plugin) has been called on by the batch so far, in order
IdleBatch ==
    [pc |-> "idle", remaining |-> <<>>, i |-> 1, progress |-> FALSE,
     iterations |-> 0, max_iterations |-> 0, done |-> <<>>,
     targets |-> {}, calls |-> <<>>]
Res(r) == [res |-> r, list |-> <<>>]

\* mutant: the dependencies are looked up but their status is not tested
can_start_plugin_any_status(ps, plugin_name) ==
    /\ plugin_name \in DOMAIN ps
    /\ \A k \in 1..Len(ps[plugin_name].manifest.depends_on) :
          ps[plugin_name].manifest.depends_on[k] \in DOMAIN ps

can_start_plugin(ps, plugin_name) ==
    /\ plugin_name \in DOMAIN ps
    /\ \A k \in 1..Len(ps[plugin_name].manifest.depends_on) :
          LET dep_name == ps[plugin_name].manifest.depends_on[k]
          IN dep_name \in DOMAIN ps /\ ps[dep_name].status = "Running"

\* mutant: the dependency test is made in the wrong direction
can_stop_plugin_reversed(ps, plugin_name, remaining_plugins) ==
    \A k \in 1..Len(remaining_plugins) :
        LET other_name == remaining_plugins[k]
        IN \/ other_name = plugin_name
           \/ plugin_name \notin DOMAIN ps
           \/ other_name \notin SeqToSet(ps[plugin_name].manifest.depends_on)

can_stop_plugin(ps, plugin_name, remaining_plugins) ==
    \A k \in 1..Len(remaining_plugins) :
        LET other_name == remaining_plugins[k]
        IN \/ other_name = plugin_name
           \/ other_name \notin DOMAIN ps
           \/ plugin_name \notin SeqToSet(ps[other_name].manifest.depends_on)

\* --- operator entry points (taken with the manager mutex held)
start_plugin(name, spawnOk) ==
    /\ Idle
    /\ IF name \notin Names
       THEN /\ result' = Res("NotFound")
            /\ UNCHANGED plugins
       ELSE LET r == start(plugins[name], spawnOk, now)
            IN /\ plugins' = [plugins EXCEPT ![name] = r.inst]
               /\ result' = Res(r.res)
    /\ UNCHANGED <<batch, now, bridgeVars, registryVars, auxVars>>

stop_plugin(name, outcome) ==
    /\ Idle
    /\ IF name \notin Names
       THEN /\ result' = Res("NotFound")
            /\ UNCHANGED plugins
       ELSE /\ outcome \in StopOutcomesOf(plugins[name])
            /\ LET r == stop(plugins[name], outcome)
               IN /\ plugins' = [plugins EXCEPT ![name] = r.inst]
                  /\ result' = Res(r.res)
    /\ UNCHANGED <<batch, now, bridgeVars, registryVars, auxVars>>

\* the status the start, stop and restart endpoints answer with, from the
\* manager's result; a panic of the handler gives no response (0)
plugin_endpoint_status(res) ==
    CASE res = "Ok" -> 200
      [] res = "Panic" -> 0
      [] OTHER -> 500

\* for a name the supervisor does not know, stop_plugin's NotFound is logged
\* and plugins.get_mut(name).unwrap() panics
restart_plugin(name, outcome, spawnOk) ==
    /\ Idle
    /\ IF name \notin Names
       THEN /\ result' = Res("Panic")
            /\ UNCHANGED plugins
       ELSE /\ plugins[name].restart_count < MaxRestarts
            /\ outcome \in StopOutcomesOf(plugins[name])
            /\ LET r == restart_instance(plugins[name], outcome, spawnOk, now)
               IN /\ plugins' = [plugins EXCEPT ![name] = r.inst]
                  /\ result' = Res(r.res)
    /\ UNCHANGED <<batch, now, bridgeVars, registryVars, auxVars>>

\* mutant: the breaker is updated for healthy plugins too
health_scan_stamps_healthy(p, t) ==
    LET c == check_health(p)
        u == update_circuit_state(c.inst, t) IN
    IF c.healthy THEN [inst |-> u, todo |-> "none"]
    ELSE IF ~u.manifest.restart_on_failure THEN [inst |-> u, todo |-> "none"]
         ELSE IF ~can_restart(u, t) THEN [inst |-> u, todo |-> "none"]
         ELSE CASE u.circuit_state = "Normal" -> [inst |-> u, todo |-> "restart"]
                [] u.circuit_state = "Degraded" ->
                     IF u.restart_count >= DegradedThreshold /\ u.last_working_manifest # None
                     THEN [inst |-> u, todo |-> "rollback"]
                     ELSE [inst |-> u, todo |-> "restart"]
                [] u.circuit_state = "CircuitOpen" -> [inst |-> u, todo |-> "none"]

\* first loop of health_check_all for one plugin: the instance after
\* check_health / update_circuit_state and the list the plugin is pushed on
health_scan(p, t) ==
    LET c == check_health(p) IN
    IF c.healthy THEN [inst |-> c.inst, todo |-> "none"]
    ELSE LET u == update_circuit_state(c.inst, t) IN
         IF ~u.manifest.restart_on_failure THEN [inst |-> u, todo |-> "none"]
         ELSE IF ~can_restart(u, t) THEN [inst |-> u, todo |-> "none"]
         ELSE CASE u.circuit_state = "Normal" -> [inst |-> u, todo |-> "restart"]
                [] u.circuit_state = "Degraded" ->
                     IF u.restart_count >= DegradedThreshold /\ u.last_working_manifest # None
                     THEN [inst |-> u, todo |-> "rollback"]
                     ELSE [inst |-> u, todo |-> "restart"]
                [] u.circuit_state = "CircuitOpen" -> [inst |-> u, todo |-> "none"]

\* one plugin's share of a health pass; spawnOk is the outcome of the spawn
\* the pass may make for it
health_check_one(p, spawnOk, t) ==
    LET h == health_scan(p, t) IN
    CASE h.todo = "none" -> h.inst
      [] h.todo = "rollback" ->
            LET r == attempt_rollback(h.inst, spawnOk, t)
            IN IF r.res = "Ok" THEN r.inst
               ELSE [r.inst EXCEPT !.status = "SafeMode", !.circuit_state = "CircuitOpen"]
      [] h.todo = "restart" -> restart_instance(h.inst, "exited", spawnOk, t).inst

\* spawned: the plugins whose spawn would succeed during this pass
health_check_all(spawned) ==
    /\ Idle
    /\ \A n \in Names : health_scan(plugins[n], now).todo = "restart"
                           => plugins[n].restart_count < MaxRestarts
    /\ plugins' = [n \in Names |-> health_check_one(plugins[n], n \in spawned, now)]
    /\ UNCHANGED <<batch, result, now, bridgeVars, registryVars, auxVars>>

reset_plugin_circuit(plugin_name) ==
    /\ Idle
    /\ IF plugin_name \notin Names
       THEN /\ result' = Res("NotFound")
            /\ UNCHANGED plugins
       ELSE /\ plugins' = [plugins EXCEPT ![plugin_name] =
                 [@ EXCEPT !.circuit_state = "Normal",
                           !.restart_count = 0,
                           !.last_restart_attempt = None,
                           !.status = IF @ = "SafeMode" THEN "Stopped" ELSE @]]
            /\ result' = Res("Ok")
    /\ UNCHANGED <<batch, now, bridgeVars, registryVars, auxVars>>

force_plugin_rollback(plugin_name, outcome, spawnOk) ==
    /\ Idle
    /\ IF plugin_name \notin Names
       THEN /\ result' = Res("NotFound")
            /\ UNCHANGED plugins
       ELSE /\ outcome \in StopOutcomesOf(plugins[plugin_name])
            /\ LET p == plugins[plugin_name]
                   s == IF p.status = "Running" THEN stop(p, outcome).inst ELSE p
                   z == [s EXCEPT !.circuit_state = "Normal", !.restart_count = 0]
                   r == attempt_rollback(z, spawnOk, now)
               IN /\ plugins' = [plugins EXCEPT ![plugin_name] = r.inst]
                  /\ result' = Res(r.res)
    /\ UNCHANGED <<batch, now, bridgeVars, registryVars, auxVars>>

\* --- environment
child_exit(n) ==
    /\ n \in Names
    /\ plugins[n].process = "alive"
    /\ plugins' = [plugins EXCEPT ![n].process = "exited"]
    /\ UNCHANGED <<batch, result, now, bridgeVars, registryVars, auxVars>>

Tick ==
    /\ now + HealthIntervalSecs <= MaxTicks * HealthIntervalSecs
    /\ now' = now + HealthIntervalSecs
    /\ UNCHANGED <<plugins, batch, result, bridgeVars, registryVars, auxVars>>

\* --- dependency-ordered start (auto_start_plugins -> start_plugins_ordered)
auto_start_plugins ==
    /\ Idle
    /\ \E order \in Orders({n \in Names : plugins[n].manifest.auto_start}) :
          batch' = [pc |-> "start_while", remaining |-> order, i |-> 1,
                    progress |-> FALSE, iterations |-> 0,
                    max_iterations |-> Len(order) + ExtraIterations, done |-> <<>>,
                    targets |-> SeqToSet(order), calls |-> <<>>]
    /\ UNCHANGED <<plugins, result, now, bridgeVars, registryVars, auxVars>>

\* the while test, then the head of a pass (sort) or the return after the loop
start_ordered_while ==
    /\ batch.pc = "start_while"
    /\ IF batch.remaining # <<>> /\ batch.iterations < batch.max_iterations
       THEN /\ batch' = [batch EXCEPT !.pc = "start_inner", !.progress = FALSE,
                                      !.iterations = @ + 1, !.i = 1,
                                      !.remaining = sort_by_key(@, plugins)]
            /\ UNCHANGED result
       ELSE /\ batch' = IdleBatch
            /\ result' = IF batch.remaining # <<>>
                         THEN [res |-> "StartFailed", list |-> batch.remaining]
                         ELSE [res |-> "Ok", list |-> batch.done]
    /\ UNCHANGED <<plugins, now, bridgeVars, registryVars, auxVars>>

\* mutant: a spawn error ends the batch
start_ordered_inner_aborts(spawnOk) ==
    /\ batch.pc = "start_inner"
    /\ batch.i <= Len(batch.remaining)
    /\ LET name == batch.remaining[batch.i] IN
       IF can_start_plugin(plugins, name)
       THEN LET r == start(plugins[name], spawnOk, now) IN
            IF r.res = "Ok"
            THEN /\ plugins' = [plugins EXCEPT ![name] = r.inst]
                 /\ batch' = [batch EXCEPT !.done = Append(@, name),
                                           !.remaining = RemoveAt(@, batch.i),
                                           !.progress = TRUE,
                                           !.calls = Append(@, name)]
                 /\ UNCHANGED result
            ELSE /\ plugins' = [plugins EXCEPT ![name] = [r.inst EXCEPT !.status = "Failed"]]
                 /\ batch' = IdleBatch
                 /\ result' = [res |-> "StartFailed", list |-> <<name>>]
       ELSE /\ plugins' = IF name \in Names
                          THEN [plugins EXCEPT ![name].status = "WaitingDependencies"]
                          ELSE plugins
            /\ batch' = [batch EXCEPT !.i = @ + 1]
            /\ UNCHANGED result
    /\ UNCHANGED <<now, bridgeVars, registryVars, auxVars>>

\* one turn of the inner loop on remaining[i]
start_ordered_inner(spawnOk) ==
    /\ batch.pc = "start_inner"
    /\ batch.i <= Len(batch.remaining)
    /\ LET name == batch.remaining[batch.i] IN
       IF can_start_plugin(plugins, name)
       THEN LET r == start(plugins[name], spawnOk, now) IN
            IF r.res = "Ok"
            THEN /\ plugins' = [plugins EXCEPT ![name] = r.inst]
                 /\ batch' = [batch EXCEPT !.done = Append(@, name),
                                           !.remaining = RemoveAt(@, batch.i),
                                           !.progress = TRUE,
                                           !.calls = Append(@, name)]
            ELSE /\ plugins' = [plugins EXCEPT ![name] = [r.inst EXCEPT !.status = "Failed"]]
                 /\ batch' = [batch EXCEPT !.remaining = RemoveAt(@, batch.i),
                                           !.calls = Append(@, name)]
       ELSE /\ plugins' = IF name \in Names
                          THEN [plugins EXCEPT ![name].status = "WaitingDependencies"]
                          ELSE plugins
            /\ batch' = [batch EXCEPT !.i = @ + 1]
    /\ UNCHANGED <<result, now, bridgeVars, registryVars, auxVars>>

\* mutant: a pass without progress goes back to the while test
start_ordered_pass_end_goes_on ==
    /\ batch.pc = "start_inner"
    /\ batch.i > Len(batch.remaining)
    /\ batch' = [batch EXCEPT !.pc = "start_while"]
    /\ UNCHANGED result
    /\ UNCHANGED <<plugins, now, bridgeVars, registryVars, auxVars>>

\* end of a pass: no progress returns the unresolved plugins
start_ordered_pass_end ==
    /\ batch.pc = "start_inner"
    /\ batch.i > Len(batch.remaining)
    /\ IF ~batch.progress
       THEN /\ batch' = IdleBatch
            /\ result' = [res |-> "StartFailed", list |-> batch.remaining]
       ELSE /\ batch' = [batch EXCEPT !.pc = "start_while"]
            /\ UNCHANGED result
    /\ UNCHANGED <<plugins, now, bridgeVars, registryVars, auxVars>>

\* --- dependency-ordered shutdown (shutdown_all -> stop_plugins_ordered)
shutdown_all ==
    /\ Idle
    /\ \E order \in Orders({n \in Names : plugins[n].status \in {"Running", "Starting"}}) :
          batch' = [pc |-> "stop_while", remaining |-> order, i |-> 1,
                    progress |-> FALSE, iterations |-> 0,
                    max_iterations |-> Len(order) + ExtraIterations, done |-> <<>>,
                    targets |-> SeqToSet(order), calls |-> <<>>]
    /\ UNCHANGED <<plugins, result, now, bridgeVars, registryVars, auxVars>>

stop_ordered_while ==
    /\ batch.pc = "stop_while"
    /\ IF batch.remaining # <<>> /\ batch.iterations < batch.max_iterations
       THEN /\ batch' = [batch EXCEPT !.pc = "stop_inner", !.progress = FALSE,
                                      !.iterations = @ + 1, !.i = 1]
            /\ UNCHANGED result
       ELSE /\ batch' = IdleBatch
            /\ result' = [res |-> "Ok", list |-> batch.done,
                          targets |-> batch.targets, calls |-> batch.calls]
    /\ UNCHANGED <<plugins, now, bridgeVars, registryVars, auxVars>>

stop_ordered_inner(outcome) ==
    /\ batch.pc = "stop_inner"
    /\ batch.i <= Len(batch.remaining)
    /\ LET name == batch.remaining[batch.i] IN
       IF can_stop_plugin(plugins, name, batch.remaining)
       THEN /\ outcome \in StopOutcomesOf(plugins[name])
            /\ LET r == stop(plugins[name], outcome) IN
               /\ plugins' = [plugins EXCEPT ![name] = r.inst]
               /\ batch' = IF r.res = "Ok"
                           THEN [batch EXCEPT !.done = Append(@, name),
                                              !.remaining = RemoveAt(@, batch.i),
                                              !.progress = TRUE,
                                              !.calls = Append(@, name)]
                           ELSE [batch EXCEPT !.remaining = RemoveAt(@, batch.i),
                                              !.calls = Append(@, name)]
       ELSE /\ outcome = "exited"
            /\ batch' = [batch EXCEPT !.i = @ + 1]
            /\ UNCHANGED plugins
    /\ UNCHANGED <<result, now, bridgeVars, registryVars, auxVars>>

\* the plugins the forced stop reports as stopped, in order
RECURSIVE force_stopped(_, _)
force_stopped(remaining, outcomes) ==
    IF remaining = <<>> THEN <<>>
    ELSE (IF outcomes[Head(remaining)] \in {"exited", "timeout"}
          THEN <<Head(remaining)>> ELSE <<>>)
         \o force_stopped(Tail(remaining), outcomes)

\* mutant: a pass without progress leaves without the forced stop
stop_ordered_pass_end_gives_up(outcomes) ==
    /\ batch.pc = "stop_inner"
    /\ batch.i > Len(batch.remaining)
    /\ IF ~batch.progress
       THEN /\ \A n \in Names : outcomes[n] \in StopOutcomesOf(plugins[n])
            /\ batch' = IdleBatch
            /\ result' = [res |-> "Ok", list |-> batch.done,
                          targets |-> batch.targets, calls |-> batch.calls]
            /\ UNCHANGED plugins
       ELSE /\ \A n \in Names : outcomes[n] = "exited"
            /\ batch' = [batch EXCEPT !.pc = "stop_while"]
            /\ UNCHANGED <<plugins, result>>
    /\ UNCHANGED <<now, bridgeVars, registryVars, auxVars>>

\* end of a pass: no progress force-stops every remaining plugin and leaves.
\* The result of a stop batch also keeps what the batch was called with and
\* the names stop_plugin was called on.
stop_ordered_pass_end(outcomes) ==
    /\ batch.pc = "stop_inner"
    /\ batch.i > Len(batch.remaining)
    /\ IF ~batch.progress
       THEN /\ \A n \in Names : outcomes[n] \in StopOutcomesOf(plugins[n])
            /\ plugins' = [n \in Names |->
                              IF n \in SeqToSet(batch.remaining)
                              THEN stop(plugins[n], outcomes[n]).inst
                              ELSE plugins[n]]
            /\ batch' = IdleBatch
            /\ result' = [res |-> "Ok",
                          list |-> batch.done \o force_stopped(batch.remaining, outcomes),
                          targets |-> batch.targets,
                          calls |-> batch.calls \o batch.remaining]
       ELSE /\ \A n \in Names : outcomes[n] = "exited"
            /\ batch' = [batch EXCEPT !.pc = "stop_while"]
            /\ UNCHANGED <<plugins, result>>
    /\ UNCHANGED <<now, bridgeVars, registryVars, auxVars>>

\* =================================================================
\* Notes bridge (notes_bridge.rs)
\* =================================================================
\* Every endpoint draws its request id from Uuid::new_v4: request r carries
\* id r.  The bus may deliver a response for any id, 0 is never issued.
Requests == 1..MaxRequests
ResponseIds == 0..MaxRequests

\* pc: where the call stands; published: the command is on the bus;
\* rx: the caller's end of the oneshot channel; delivered: responses put
\* into the channel; got: the request id carried by the response in the
\* channel; result: what the call returned
Request_new ==
    [pc |-> "idle", published |-> FALSE, started |-> 0, rx |-> "empty",
     delivered |-> 0, got |-> None, result |-> "none"]

\* the caller's receiver still exists
ReceiverAlive(q) == q.pc \in {"publishing", "awaiting"}

\* first synchronous stretch of send_command: insert, then serialize
send_command_insert(r, serialized) ==
    /\ requests[r].pc = "idle"
    /\ pending' = pending \cup {r}
    /\ requests' = [requests EXCEPT ![r] =
          IF serialized THEN [@ EXCEPT !.pc = "publishing"]
          ELSE [@ EXCEPT !.pc = "done", !.result = "INTERNAL_SERVER_ERROR"]]
    /\ UNCHANGED <<last_response, now, supervisorVars, registryVars, auxVars>>

\* mqtt_client.publish(..).await returns, then the timeout starts
send_command_publish(r, published) ==
    /\ requests[r].pc = "publishing"
    /\ requests' = [requests EXCEPT ![r] =
          IF published THEN [@ EXCEPT !.pc = "awaiting", !.published = TRUE, !.started = now]
          ELSE [@ EXCEPT !.pc = "done", !.result = "SERVICE_UNAVAILABLE"]]
    /\ UNCHANGED <<pending, last_response, now, supervisorVars, registryVars, auxVars>>

\* mutant: the timeout arm returns without removing the entry
send_command_await_keeps_entry(r) ==
    /\ requests[r].pc = "awaiting"
    /\ LET q == requests[r] IN
       CASE q.rx = "full" ->
               /\ requests' = [requests EXCEPT ![r] = [@ EXCEPT !.pc = "done", !.result = "Ok"]]
               /\ UNCHANGED pending
         [] q.rx = "closed" ->
               /\ pending' = pending \ {r}
               /\ requests' = [requests EXCEPT ![r] =
                     [@ EXCEPT !.pc = "done", !.result = "INTERNAL_SERVER_ERROR"]]
         [] q.rx = "empty" ->
               /\ now - q.started >= BridgeTimeoutSecs
               /\ UNCHANGED pending
               /\ requests' = [requests EXCEPT ![r] =
                     [@ EXCEPT !.pc = "done", !.result = "GATEWAY_TIMEOUT"]]
    /\ UNCHANGED <<last_response, now, supervisorVars, registryVars, auxVars>>

\* timeout(5 s, rx).await returns: the receiver is polled before the timer
send_command_await(r) ==
    /\ requests[r].pc = "awaiting"
    /\ LET q == requests[r] IN
       CASE q.rx = "full" ->
               /\ requests' = [requests EXCEPT ![r] = [@ EXCEPT !.pc = "done", !.result = "Ok"]]
               /\ UNCHANGED pending
         [] q.rx = "closed" ->
               /\ pending' = pending \ {r}
               /\ requests' = [requests EXCEPT ![r] =
                     [@ EXCEPT !.pc = "done", !.result = "INTERNAL_SERVER_ERROR"]]
         [] q.rx = "empty" ->
               /\ now - q.started >= BridgeTimeoutSecs
               /\ pending' = pending \ {r}
               /\ requests' = [requests EXCEPT ![r] =
                     [@ EXCEPT !.pc = "done", !.result = "GATEWAY_TIMEOUT"]]
    /\ UNCHANGED <<last_response, now, supervisorVars, registryVars, auxVars>>

\* the HTTP caller goes away: the send_command future is dropped at an await
send_command_dropped(r) ==
    /\ requests[r].pc \in {"publishing", "awaiting"}
    /\ requests' = [requests EXCEPT ![r] = [@ EXCEPT !.pc = "dropped"]]
    /\ UNCHANGED <<pending, last_response, now, supervisorVars, registryVars, auxVars>>

\* mutant: the map gives the oldest sender, whatever the id
sender_of_oldest(pend, request_id) ==
    CHOOSE r \in pend : \A o \in pend : r <= o

\* pending.remove(&request_id): the call whose sender is stored under
\* request_id.  send_command inserts its sender under its own request id.
sender_of(pend, request_id) == request_id

\* mutant: the sender is looked up and left in the map
handle_response_keeps_entry(request_id) ==
    /\ last_response' = [id |-> request_id, known |-> request_id \in pending]
    /\ IF request_id \in pending
       THEN /\ UNCHANGED pending
            /\ requests' = [requests EXCEPT ![sender_of(pending, request_id)] =
                  IF ReceiverAlive(@)
                  THEN [@ EXCEPT !.rx = "full", !.delivered = @ + 1,
                                 !.got = Some(request_id)]
                  ELSE @]
       ELSE UNCHANGED <<pending, requests>>
    /\ UNCHANGED <<now, supervisorVars, registryVars, auxVars>>

handle_response(request_id) ==
    /\ last_response' = [id |-> request_id, known |-> request_id \in pending]
    /\ IF request_id \in pending
       THEN /\ pending' = pending \ {request_id}
            /\ requests' = [requests EXCEPT ![sender_of(pending, request_id)] =
                  IF ReceiverAlive(@)
                  THEN [@ EXCEPT !.rx = "full", !.delivered = @ + 1,
                                 !.got = Some(request_id)]
                  ELSE @]
       ELSE UNCHANGED <<pending, requests>>
    /\ UNCHANGED <<now, supervisorVars, registryVars, auxVars>>

bridge_tick ==
    /\ now < MaxBridgeSecs
    /\ now' = now + 1
    /\ UNCHANGED <<bridgeVars, supervisorVars, registryVars, auxVars>>

\* =================================================================
\* Agent registry (agents.rs)
\* =================================================================
AgentIds == {"x", "y"}
\* statuses a heartbeat may carry; the registry only ever compares a status
\* with "online", so busy and maintenance take the paths idle takes
HeartbeatStatuses == {"online", "idle"}

Task_idle == [pc |-> "idle", threshold |-> 0, to_mark |-> <<>>, i |-> 1, content |-> <<>>]

\* mutant: the read guard is released before the file is written
ReadLocked_released == FALSE

\* the RwLock: save_agents keeps its read guard until the file is written
ReadLocked == sweeper.pc = "save_write" \/ listener.pc = "save_write"

handle_agent_registration(id) ==
    /\ listener.pc = "idle"
    /\ ~ReadLocked
    /\ agents' = [a \in DOMAIN agents \cup {id} |->
                    IF a = id
                    THEN [status |-> "online", last_seen |-> now, registration_time |-> now]
                    ELSE agents[a]]
    /\ listener' = [listener EXCEPT !.pc = "save"]
    /\ UNCHANGED <<snapshot, sweeper, now, supervisorVars, bridgeVars, busVars, auxVars>>

\* save_agents: read lock and serialization
listener_save ==
    /\ listener.pc = "save"
    /\ listener' = [listener EXCEPT !.pc = "save_write", !.content = Some(agents)]
    /\ UNCHANGED <<agents, snapshot, sweeper, now, supervisorVars, bridgeVars, busVars, auxVars>>

\* save_agents: tokio::fs::write completes
listener_save_write ==
    /\ listener.pc = "save_write"
    /\ snapshot' = listener.content
    /\ listener' = Task_idle
    /\ UNCHANGED <<agents, sweeper, now, supervisorVars, bridgeVars, busVars, auxVars>>

\* mutant: a heartbeat from an unknown agent creates its record
handle_agent_heartbeat_creates(id, status) ==
    /\ listener.pc = "idle"
    /\ ~ReadLocked
    /\ agents' = [a \in DOMAIN agents \cup {id} |->
                    IF a = id
                    THEN [status |-> status, last_seen |-> now,
                          registration_time |-> IF id \in DOMAIN agents
                                                THEN agents[id].registration_time ELSE now]
                    ELSE agents[a]]
    /\ UNCHANGED <<snapshot, sweeper, listener, now, supervisorVars, bridgeVars, busVars, auxVars>>

handle_agent_heartbeat(id, status) ==
    /\ listener.pc = "idle"
    /\ ~ReadLocked
    /\ agents' = IF id \in DOMAIN agents
                 THEN [agents EXCEPT ![id] = [@ EXCEPT !.status = status, !.last_seen = now]]
                 ELSE agents
    /\ UNCHANGED <<snapshot, sweeper, listener, now, supervisorVars, bridgeVars, busVars, auxVars>>

RECURSIVE to_mark_offline(_, _, _)
\* the agents the scan pushes, in the order the map yields them
to_mark_offline(order, ags, timeout_threshold) ==
    IF order = <<>> THEN <<>>
    ELSE (IF ags[Head(order)].status = "online" /\ ags[Head(order)].last_seen < timeout_threshold
          THEN <<Head(order)>> ELSE <<>>)
         \o to_mark_offline(Tail(order), ags, timeout_threshold)

\* monitoring loop: interval tick, now, threshold and the scan under the read lock
sweep_scan ==
    /\ sweeper.pc = "idle"
    /\ \E order \in Orders(DOMAIN agents) :
          sweeper' = [sweeper EXCEPT
                         !.pc = "mark",
                         !.threshold = now - StaleTimeoutMinutes * 60,
                         !.to_mark = to_mark_offline(order, agents, now - StaleTimeoutMinutes * 60),
                         !.i = 1]
    /\ UNCHANGED <<agents, snapshot, listener, now, supervisorVars, bridgeVars, busVars, auxVars>>

mark_agent_offline(ags, agent_id) ==
    IF agent_id \in DOMAIN ags
    THEN [ags EXCEPT ![agent_id] = [@ EXCEPT !.status = "offline"]]
    ELSE ags

\* one mark_agent_offline call of the commit loop
sweep_mark ==
    /\ sweeper.pc = "mark"
    /\ sweeper.i <= Len(sweeper.to_mark)
    /\ ~ReadLocked
    /\ agents' = mark_agent_offline(agents, sweeper.to_mark[sweeper.i])
    /\ sweeper' = [sweeper EXCEPT !.i = @ + 1]
    /\ UNCHANGED <<snapshot, listener, now, supervisorVars, bridgeVars, busVars, auxVars>>

\* save_agents of the monitoring loop: read lock and serialization
sweep_save ==
    /\ sweeper.pc = "mark"
    /\ sweeper.i > Len(sweeper.to_mark)
    /\ sweeper' = [sweeper EXCEPT !.pc = "save_write", !.content = Some(agents)]
    /\ UNCHANGED <<agents, snapshot, listener, now, supervisorVars, bridgeVars, busVars, auxVars>>

\* the file is written and the pass is over
sweep_save_write ==
    /\ sweeper.pc = "save_write"
    /\ snapshot' = sweeper.content
    /\ sweeper' = Task_idle
    /\ UNCHANGED <<agents, listener, now, supervisorVars, bridgeVars, busVars, auxVars>>

registry_tick ==
    /\ now + SweepIntervalSecs <= MaxSweepTicks * SweepIntervalSecs
    /\ now' = now + SweepIntervalSecs
    /\ UNCHANGED <<registryVars, supervisorVars, bridgeVars, auxVars>>

\* --- commands to agents (AgentRegistry::send_command and the agent host)
\* a topic is the sequence of its levels
KernelCommandTopic == <<"symbion", "agents", "command@v1">>
\* the agent ids a command may name: the hosts and one id no host carries
CommandTargets == AgentIds \cup {"z"}
CommandTypes == {"shutdown", "reboot"}
\* what may happen inside send_command
CommandOutcomes == {"ok", "format_error", "no_client", "serialize_error", "publish_error"}
NoReply == [res |-> "none", command_id |-> None, body |-> None]

\* the topic filter agent host X subscribes to
command_topic(agent_id) == KernelCommandTopic \o <<agent_id>>

\* broker matching of a filter without wildcards against a topic name
topic_matches(filter, topic) == filter = topic

\* the test of the agent host's event loop: topic.starts_with(".../command@v1/")
forwards_command(topic) ==
    /\ Len(topic) > Len(KernelCommandTopic)
    /\ SubSeq(topic, 1, Len(KernelCommandTopic)) = KernelCommandTopic

\* the agent hosts that receive message m and hand it to their main loop
Receivers(m) ==
    {x \in AgentIds : topic_matches(command_topic(x), m.topic) /\ forwards_command(m.topic)}

\* mutant: the command id is taken from the number of commands on the bus
send_command_reuses_id(b, n, agent_id, command_type, outcome) ==
    LET command_id == Len(b) + 1
        command == [topic |-> KernelCommandTopic, command_id |-> command_id,
                    agent_id |-> agent_id, command_type |-> command_type]
    IN IF outcome = "ok"
       THEN [bus |-> Append(b, command), issued |-> n + 1,
             res |-> "Ok", command_id |-> Some(command_id)]
       ELSE [bus |-> b, issued |-> n + 1, res |-> "Err", command_id |-> None]

\* b: the bus, n: the ids produced so far.  Uuid::new_v4 is taken to give an
\* id never given before: the next integer.
send_command(b, n, agent_id, command_type, outcome) ==
    LET command_id == n + 1
        command == [topic |-> KernelCommandTopic, command_id |-> command_id,
                    agent_id |-> agent_id, command_type |-> command_type]
    IN IF outcome = "ok"
       THEN [bus |-> Append(b, command), issued |-> n + 1,
             res |-> "Ok", command_id |-> Some(command_id)]
       ELSE [bus |-> b, issued |-> n + 1, res |-> "Err", command_id |-> None]

\* POST /agents/{id}/shutdown (the reboot endpoint has the same body with
\* its own command type): send_command, then the response body
agent_shutdown_endpoint(id, command_type, outcome) ==
    /\ issued < MaxCommands
    /\ LET r == send_command(bus, issued, id, command_type, outcome)
       IN /\ bus' = r.bus
          /\ issued' = r.issued
          /\ reply' = [res |-> r.res, command_id |-> r.command_id,
                       body |-> IF r.res = "Ok" THEN r.command_id ELSE None]
    /\ UNCHANGED <<agents, snapshot, sweeper, listener, now, supervisorVars, bridgeVars, auxVars>>

\* ------------------------------------------------------- specifications
\* every variable but the input of the pure functions
InitRest(manifests) ==
    /\ \E ms \in manifests : plugins = [n \in DOMAIN ms |-> PluginInstance_new(ms[n])]
    /\ batch = IdleBatch
    /\ result = Res("Ok")
    /\ now = 0
    /\ pending = {}
    /\ requests = [r \in Requests |-> Request_new]
    /\ last_response = [id |-> 0, known |-> FALSE]
    /\ agents = <<>>
    /\ snapshot = <<>>
    /\ sweeper = Task_idle
    /\ listener = Task_idle
    /\ bus = <<>>
    /\ issued = 0
    /\ reply = NoReply
    /\ stopping = Stop_idle
    /\ http = Http_idle
    /\ tasks = Tasks_init
    /\ ret = None

InitWith(manifests) ==
    /\ InitRest(manifests)
    /\ arg = None

Init == InitWith(LifecycleManifests)

OrderedStart ==
    \/ auto_start_plugins
    \/ start_ordered_while
    \/ \E ok \in BOOLEAN : start_ordered_inner(ok)
    \/ start_ordered_pass_end

OrderedStop ==
    \/ shutdown_all
    \/ stop_ordered_while
    \/ \E o \in StopOutcomes : stop_ordered_inner(o)
    \/ \E os \in [Names -> StopOutcomes] : stop_ordered_pass_end(os)

Next ==
    \/ \E n \in OperatorNames, ok \in BOOLEAN : start_plugin(n, ok)
    \/ \E n \in OperatorNames, o \in StopOutcomes : stop_plugin(n, o)
    \/ \E n \in OperatorNames, o \in StopOutcomes, ok \in BOOLEAN : restart_plugin(n, o, ok)
    \/ \E sp \in SUBSET Names : health_check_all(sp)
    \/ \E n \in OperatorNames : reset_plugin_circuit(n)
    \/ \E n \in OperatorNames, o \in StopOutcomes, ok \in BOOLEAN : force_plugin_rollback(n, o, ok)
    \/ \E n \in Names : child_exit(n)
    \/ Tick
    \/ OrderedStart
    \/ OrderedStop

Spec == Init /\ [][Next]_vars

\* three plugins under the dependency-ordered batches
InitOrdered == InitWith(OrderedManifests)

NextOrdered ==
    \/ OrderedStart
    \/ OrderedStop
    \/ \E n \in Names : child_exit(n)
    \/ \E n \in OperatorNames, o \in StopOutcomes : stop_plugin(n, o)
    \/ \E sp \in SUBSET Names : health_check_all(sp)

SpecOrdered == InitOrdered /\ [][NextOrdered]_vars

\* =================================================================
\* Plugin supervisor: properties
\* =================================================================
DependsOn(n) == SeqToSet(plugins[n].manifest.depends_on)

\* C1: during a dependency-ordered start a plugin becomes Running only in a
\* step taken while every plugin of its depends_on list is known to the
\* supervisor and has status Running; hence a plugin naming an unknown
\* dependency is never started by the batch.
T_C1 ==
    [][\A n \in Names :
          (/\ batch.pc = "start_inner"
           /\ plugins[n].status # "Running"
           /\ plugins'[n].status = "Running")
          => \A d \in DependsOn(n) : d \in Names /\ plugins[d].status = "Running"]_vars

\* the batch has started a plugin that declares dependencies
W_C1 ==
    /\ batch.pc \in {"start_inner", "start_while"}
    /\ \E n \in SeqToSet(batch.done) :
          /\ DependsOn(n) # {}
          /\ plugins[n].status = "Running"

\* C10: in shutdown_all a turn of the inner loop stops a plugin only when no
\* other plugin whose status is Running lists it in depends_on (the forced
\* stop at the end of a pass without progress is the exception).
T_C10 ==
    [][(/\ batch.pc = "stop_inner"
        /\ batch.i <= Len(batch.remaining)
        /\ Len(batch'.remaining) < Len(batch.remaining))
       => LET n == batch.remaining[batch.i]
          IN \A m \in Names \ {n} :
                plugins[m].status = "Running" => n \notin DependsOn(m)]_vars

\* the batch has stopped a plugin after the plugin that depends on it
W_C10 ==
    /\ batch.pc \in {"stop_inner", "stop_while"}
    /\ \E k1, k2 \in 1..Len(batch.done) :
          /\ k1 < k2
          /\ batch.done[k2] \in DependsOn(batch.done[k1])

\* --- which operation a step is
IsHealthPass == \E sp \in SUBSET Names : health_check_all(sp)
IsOperatorRestart(n) ==
    \E o \in StopOutcomes, ok \in BOOLEAN : restart_plugin(n, o, ok)
IsForceRollback(n) ==
    \E o \in StopOutcomes, ok \in BOOLEAN : force_plugin_rollback(n, o, ok)
IsResetCircuit(n) == reset_plugin_circuit(n)
\* the health pass restarts (rolls back) n
HealthRestarts(n) == IsHealthPass /\ health_scan(plugins[n], now).todo = "restart"
HealthRollsBack(n) == IsHealthPass /\ health_scan(plugins[n], now).todo = "rollback"
\* force_plugin_rollback reaches the start of attempt_rollback
ForceRollbackStarts(n) ==
    IsForceRollback(n) /\ plugins[n].last_working_manifest # None

\* C2 (as claimed): a health pass that finds a restart_on_failure plugin
\* without a live child, with restart_count 3, 4 or 5 and a last restart
\* attempt at least 60 seconds old, makes a restart attempt; and a plugin
\* whose restart_count reached 6 through such attempts is in SafeMode.
CE_C2 ==
    [][\A n \in Names :
          (/\ IsHealthPass
           /\ plugins[n].manifest.restart_on_failure
           /\ plugins[n].process # "alive"
           /\ plugins[n].status = "Failed"
           /\ plugins[n].restart_count \in DegradedThreshold..(CircuitOpenThreshold - 1)
           /\ plugins[n].last_restart_attempt # None
           /\ now - plugins[n].last_restart_attempt[1] >= DegradedCooldownSecs)
          => \/ plugins'[n].restart_count = plugins[n].restart_count + 1
             \/ plugins'[n].status \in {"Running", "SafeMode"}]_vars

\* C8 (as claimed): restart_count never decreases.
CE_C8 ==
    [][\A n \in Names : plugins'[n].restart_count >= plugins[n].restart_count]_vars

\* C8 (amended): restart_count never decreases under start, stop, restart,
\* health passes, ordered start and ordered shutdown; reset_plugin_circuit
\* and force_plugin_rollback set it to 0.
T_C8 ==
    [][\A n \in Names :
          \/ plugins'[n].restart_count >= plugins[n].restart_count
          \/ /\ IsResetCircuit(n) \/ IsForceRollback(n)
             /\ plugins'[n].restart_count = 0]_vars

\* a plugin restarted into the Degraded range runs again with its count kept
W_C8 ==
    \E n \in Names :
       /\ plugins[n].restart_count >= DegradedThreshold + 1
       /\ plugins[n].status = "Running"
       /\ plugins[n].circuit_state = "Normal"

\* C9 (as claimed): every restart attempt (automatic restart, operator
\* restart, rollback start) adds exactly one to restart_count, and nothing
\* else increases it.
CE_C9 ==
    [][\A n \in Names :
          /\ (HealthRestarts(n) \/ HealthRollsBack(n) \/ IsOperatorRestart(n)
                \/ ForceRollbackStarts(n))
             => plugins'[n].restart_count = plugins[n].restart_count + 1
          /\ plugins'[n].restart_count > plugins[n].restart_count
             => (HealthRestarts(n) \/ HealthRollsBack(n) \/ IsOperatorRestart(n)
                   \/ ForceRollbackStarts(n))]_vars

\* C9 (amended): every restart made by restart_plugin, by the operator or by
\* the health monitor, adds exactly one to restart_count; a rollback start
\* adds nothing (the health monitor's leaves the counter as it is,
\* force_plugin_rollback sets it to 0); nothing else increases it.
T_C9 ==
    [][\A n \in Names :
          /\ (HealthRestarts(n) \/ IsOperatorRestart(n))
             => plugins'[n].restart_count = plugins[n].restart_count + 1
          /\ HealthRollsBack(n)
             => plugins'[n].restart_count = plugins[n].restart_count
          /\ IsForceRollback(n) => plugins'[n].restart_count = 0
          /\ plugins'[n].restart_count > plugins[n].restart_count
             => (HealthRestarts(n) \/ IsOperatorRestart(n))]_vars

\* a plugin has been restarted twice and runs
W_C9 ==
    \E n \in Names :
       /\ plugins[n].restart_count = 2
       /\ plugins[n].status = "Running"
       /\ plugins[n].process = "alive"

\* =================================================================
\* Notes bridge: properties
\* =================================================================
\* C3 (as claimed): once send_command has returned, the entry it inserted is
\* no longer in the pending map, whatever the exit path.
CE_C3 ==
    \A r \in Requests : requests[r].pc = "done" => r \notin pending

\* C4: the id of a published request is in the pending map for as long as no
\* reply for it was handled and its timeout did not fire, and once removed it
\* never comes back; the caller is given a timeout only after at least 5
\* seconds without a reply, and a caller whose await ends without a reply
\* gets GATEWAY_TIMEOUT with the id out of the map.
T_C4 ==
    /\ [](\A r \in Requests :
            (requests[r].pc = "awaiting" /\ requests[r].rx = "empty") => r \in pending)
    /\ [](\A r \in Requests :
            requests[r].result = "GATEWAY_TIMEOUT"
            => r \notin pending /\ requests[r].delivered = 0)
    /\ [](\A r \in Requests :
            requests[r].result = "Ok" => r \notin pending /\ requests[r].delivered = 1)
    /\ [][\A r \in Requests :
            (requests[r].published /\ r \notin pending) => r \notin pending']_vars
    /\ [][\A r \in Requests :
            (requests[r].pc = "awaiting" /\ requests[r].rx = "empty"
               /\ requests'[r].pc = "done")
            => /\ now - requests[r].started >= BridgeTimeoutSecs
               /\ requests'[r].result = "GATEWAY_TIMEOUT"
               /\ r \notin pending']_vars

\* a published request has timed out
W_C4 ==
    \E r \in Requests :
       /\ requests[r].published
       /\ requests[r].result = "GATEWAY_TIMEOUT"
       /\ r \notin pending

\* C5: no caller is given more than one response, and a response whose id is
\* not pending changes neither the pending map nor any request.
T_C5 ==
    /\ [](\A r \in Requests : requests[r].delivered <= 1)
    /\ [][\A id \in ResponseIds :
            (handle_response(id) /\ id \notin pending)
            => UNCHANGED <<pending, requests>>]_vars

\* a second response for an id was discarded after the first was delivered,
\* while another request is outstanding
W_C5 ==
    \E r, o \in Requests :
       /\ requests[r].delivered = 1
       /\ last_response = [id |-> r, known |-> FALSE]
       /\ o # r
       /\ o \in pending
       /\ requests[o].pc = "awaiting"

CE_C7 ==
    [][sweep_save_write
       => \A a \in SeqToSet(sweeper.to_mark) :
             (a \in DOMAIN agents' /\ agents'[a].last_seen >= sweeper.threshold)
             => agents'[a].status # "offline"]_vars

\* the bridge alone
NextBridge ==
    \/ \E r \in Requests, ok \in BOOLEAN : send_command_insert(r, ok)
    \/ \E r \in Requests, ok \in BOOLEAN : send_command_publish(r, ok)
    \/ \E r \in Requests : send_command_await(r)
    \/ \E r \in Requests : send_command_dropped(r)
    \/ \E id \in ResponseIds : handle_response(id)
    \/ bridge_tick

SpecBridge == Init /\ [][NextBridge]_vars

\* the registry alone
NextRegistry ==
    \/ \E id \in AgentIds : handle_agent_registration(id)
    \/ listener_save
    \/ listener_save_write
    \/ \E id \in AgentIds, st \in HeartbeatStatuses : handle_agent_heartbeat(id, st)
    \/ sweep_scan
    \/ sweep_mark
    \/ sweep_save
    \/ sweep_save_write
    \/ registry_tick

SpecRegistry == Init /\ [][NextRegistry]_vars

\* a restart storm: boot, then only the health monitor, with every spawn
\* succeeding and the child exiting again
InitStorm == InitWith({[a |-> Manifest("a", TRUE, TRUE, <<>>, 10)]})

NextStorm ==
    \/ OrderedStart
    \/ \E n \in Names : child_exit(n)
    \/ health_check_all(Names)
    \/ Tick

SpecStorm == InitStorm /\ [][NextStorm]_vars

\* =================================================================
\* Dependents of a plugin that failed to spawn
\* =================================================================
\* a <- b <- c, the dependents restarting on failure
DependentManifests ==
    { [a |-> Manifest("a", TRUE, FALSE, <<>>, 10),
       b |-> Manifest("b", TRUE, TRUE, <<"a">>, 20),
       c |-> Manifest("c", TRUE, TRUE, <<"b">>, 30)] }

InitDependents == InitWith(DependentManifests)

\* boot, then the health monitor
NextDependents ==
    \/ OrderedStart
    \/ \E n \in Names : child_exit(n)
    \/ \E sp \in SUBSET Names : health_check_all(sp)

SpecDependents == InitDependents /\ [][NextDependents]_vars

RECURSIVE UpstreamFrom(_)
\* the known plugins reached from S along depends_on
UpstreamFrom(S) ==
    LET T == S \cup UNION {DependsOn(m) \cap Names : m \in S}
    IN IF T = S THEN S ELSE UpstreamFrom(T)
\* the plugins n depends on, directly or through another plugin
Upstream(n) == UpstreamFrom(DependsOn(n) \cap Names)

\* C11 (as claimed): a plugin left in WaitingDependencies stays there across
\* every step that leaves a plugin it depends on, directly or through another
\* dependent, not Running.
CE_C11 ==
    [][\A n \in Names :
          (/\ plugins[n].status = "WaitingDependencies"
           /\ \E d \in Upstream(n) :
                 plugins[d].status # "Running" /\ plugins'[d].status # "Running")
          => plugins'[n].status = "WaitingDependencies"]_vars

\* =================================================================
\* Commands to agents: properties
\* =================================================================
NextCommands ==
    \/ \E id \in CommandTargets, ct \in CommandTypes, o \in CommandOutcomes :
          agent_shutdown_endpoint(id, ct, o)
    \/ \E id \in AgentIds : handle_agent_registration(id)
    \/ listener_save
    \/ listener_save_write
    \/ \E id \in AgentIds, st \in HeartbeatStatuses : handle_agent_heartbeat(id, st)

SpecCommands == Init /\ [][NextCommands]_vars

\* C12 (as claimed): every command published for an agent host X is on the
\* topic X subscribes to, and is received by X and by no other host.
CE_C12 ==
    \A k \in 1..Len(bus) :
        bus[k].agent_id \in AgentIds
        => /\ bus[k].topic = command_topic(bus[k].agent_id)
           /\ Receivers(bus[k]) = {bus[k].agent_id}

\* C13: a send_command call that returns Ok has put exactly one message on
\* the bus; its command_id was not produced before, is the id returned and
\* the one in the HTTP body; this does not depend on the agent being
\* registered, and the agent map is left as it was.  A failed call publishes
\* nothing.
T_C13 ==
    /\ [][issued' # issued =>
            /\ agents' = agents
            /\ IF reply'.res = "Ok"
               THEN /\ Len(bus') = Len(bus) + 1
                    /\ SubSeq(bus', 1, Len(bus)) = bus
                    /\ reply'.command_id = Some(bus'[Len(bus')].command_id)
                    /\ reply'.body = reply'.command_id
                    /\ bus'[Len(bus')].command_id \notin 1..issued
                    /\ \A k \in 1..Len(bus) : bus[k].command_id # bus'[Len(bus')].command_id
               ELSE bus' = bus /\ reply'.body = None]_vars
    /\ [](\A j, k \in 1..Len(bus) : j # k => bus[j].command_id # bus[k].command_id)

\* after a failed call, a command to an unregistered agent and then one to a
\* registered agent were published
W_C13 ==
    /\ Len(bus) = 2
    /\ issued = 3
    /\ bus[1].agent_id \notin DOMAIN agents
    /\ bus[2].agent_id \in DOMAIN agents
    /\ reply.res = "Ok"
    /\ reply.body = Some(bus[2].command_id)

\* =================================================================
\* Agent registry: registration and heartbeat
\* =================================================================
\* C14 (as claimed): a registration for an agent already in the registry
\* leaves the record's registration_time as it was and sets status online
\* and last_seen to the handling time.
CE_C14 ==
    [][\A id \in AgentIds :
          (handle_agent_registration(id) /\ id \in DOMAIN agents)
          => /\ agents'[id].registration_time = agents[id].registration_time
             /\ agents'[id].status = "online"
             /\ agents'[id].last_seen = now]_vars

\* C15: a heartbeat for an id the registry does not hold changes neither the
\* agent map nor the snapshot file; a heartbeat for a known agent changes no
\* other agent's record, adds no record, and does not write the snapshot
\* file or start a save.
T_C15 ==
    /\ [][\A id \in AgentIds, st \in HeartbeatStatuses :
            handle_agent_heartbeat(id, st)
            => /\ snapshot' = snapshot
               /\ listener' = listener
               /\ id \notin DOMAIN agents => agents' = agents
               /\ id \in DOMAIN agents
                  => /\ DOMAIN agents' = DOMAIN agents
                     /\ \A a \in DOMAIN agents \ {id} : agents'[a] = agents[a]]_vars
    \* the only step that changes the map and leaves both tasks where they
    \* stand is the heartbeat
    /\ [][(agents' # agents /\ listener' = listener /\ sweeper' = sweeper)
            => /\ snapshot' = snapshot
               /\ DOMAIN agents' = DOMAIN agents
               /\ \E id \in DOMAIN agents :
                     \A a \in DOMAIN agents \ {id} : agents'[a] = agents[a]]_vars

\* a heartbeat changed a registered agent's record after the last save, while
\* the other agent is not in the registry
W_C15 ==
    \E id \in AgentIds :
       /\ id \in DOMAIN agents
       /\ agents[id].status = "idle"
       /\ agents[id].last_seen > agents[id].registration_time
       /\ snapshot # None
       /\ snapshot[1][id].status = "online"
       /\ listener.pc = "idle"
       /\ AgentIds \ DOMAIN agents # {}

\* =================================================================
\* SafeMode and rollback: properties
\* =================================================================
\* C16 (as claimed): a health pass leaves a plugin that is in SafeMode in
\* SafeMode, without a child and with its counter as it was; reset of the
\* breaker moves it to Stopped.
CE_C16 ==
    [][\A n \in Names :
          plugins[n].status = "SafeMode"
          => /\ IsHealthPass
                => /\ plugins'[n].status = "SafeMode"
                   /\ plugins'[n].process = plugins[n].process
                   /\ plugins'[n].restart_count = plugins[n].restart_count
             /\ IsResetCircuit(n) => plugins'[n].status = "Stopped"]_vars

\* C17 (as claimed): a rollback attempt, by the health monitor or forced by
\* the operator, whose start fails leaves the manifest that was current
\* before it, status SafeMode and breaker state CircuitOpen.
CE_C17 ==
    [][\A n \in Names :
          (/\ HealthRollsBack(n) \/ ForceRollbackStarts(n)
           /\ plugins'[n].status # "Running")
          => /\ plugins'[n].manifest = plugins[n].manifest
             /\ plugins'[n].status = "SafeMode"
             /\ plugins'[n].circuit_state = "CircuitOpen"]_vars

\* =================================================================
\* The breaker thresholds
\* =================================================================
PluginStatuses ==
    {"Stopped", "WaitingDependencies", "Starting", "Running", "Stopping",
     "Killed", "Failed", "SafeMode"}
CircuitStates == {"Normal", "Degraded", "CircuitOpen"}

\* one instance with any counter, status and breaker state
InitCircuit ==
    /\ \E c \in 0..MaxFailureCount, st \in PluginStatuses, cs \in CircuitStates :
          plugins = [a |-> [PluginInstance_new(Manifest("a", TRUE, TRUE, <<>>, 10))
                               EXCEPT !.restart_count = c, !.status = st,
                                      !.circuit_state = cs]]
    /\ batch = IdleBatch
    /\ result = Res("Ok")
    /\ now = 0
    /\ pending = {}
    /\ requests = [r \in Requests |-> Request_new]
    /\ last_response = [id |-> 0, known |-> FALSE]
    /\ agents = <<>>
    /\ snapshot = <<>>
    /\ sweeper = Task_idle
    /\ listener = Task_idle
    /\ bus = <<>>
    /\ issued = 0
    /\ reply = NoReply
    /\ stopping = Stop_idle
    /\ http = Http_idle
    /\ tasks = Tasks_init
    /\ arg = None
    /\ ret = None

\* a failure of plugin n is recorded
record_failure(n) ==
    /\ plugins' = [plugins EXCEPT ![n] = update_circuit_state(@, now)]
    /\ UNCHANGED <<batch, result, now, bridgeVars, registryVars, auxVars>>

NextCircuit ==
    \/ \E n \in Names : record_failure(n)
    \/ Tick

SpecCircuit == InitCircuit /\ [][NextCircuit]_vars

\* C18: recording a failure leaves the breaker Normal exactly for a
\* restart_count of 0, 1 or 2, Degraded exactly for 3, 4 or 5, and
\* CircuitOpen, with status SafeMode, exactly for 6 or more; below 6 the
\* status is not touched.
T_C18 ==
    [][\A n \in Names :
          plugins'[n].last_restart_attempt # plugins[n].last_restart_attempt
          => LET c == plugins[n].restart_count IN
             /\ plugins'[n].restart_count = c
             /\ plugins'[n].circuit_state = "Normal" <=> c \in 0..2
             /\ plugins'[n].circuit_state = "Degraded" <=> c \in 3..5
             /\ plugins'[n].circuit_state = "CircuitOpen" <=> c >= 6
             /\ c >= 6 => plugins'[n].status = "SafeMode"
             /\ c < 6 => plugins'[n].status = plugins[n].status]_vars

\* a failure recorded at a count of 6 opened the breaker, one second pass
\* later the stamp is the later time
W_C18 ==
    \E n \in Names :
       /\ plugins[n].restart_count = 6
       /\ plugins[n].last_restart_attempt = Some(HealthIntervalSecs)
       /\ plugins[n].circuit_state = "CircuitOpen"
       /\ plugins[n].status = "SafeMode"

\* =================================================================
\* Dependency-ordered start: priorities and termination
\* =================================================================
\* a has the smallest priority and waits for b; c is independent
PriorityManifests ==
    { [a |-> Manifest("a", TRUE, FALSE, <<"b">>, 10),
       b |-> Manifest("b", TRUE, FALSE, <<>>, 20),
       c |-> Manifest("c", TRUE, FALSE, <<>>, 30)] }

InitPriority == InitWith(PriorityManifests)

SpecPriority == InitPriority /\ [][NextOrdered]_vars

\* C19 (as claimed): when the batch starts a plugin, no other plugin still in
\* the batch whose dependencies are all Running has a strictly smaller
\* start_priority.
CE_C19 ==
    [][\A n \in Names :
          (/\ batch.pc = "start_inner"
           /\ plugins[n].status # "Running"
           /\ plugins'[n].status = "Running")
          => \A m \in SeqToSet(batch.remaining) \ {n} :
                (plugins[m].status # "Running" /\ can_start_plugin(plugins, m))
                => plugins[m].manifest.start_priority
                      >= plugins[n].manifest.start_priority]_vars

\* the batch under a scheduler that lets it run
SpecOrderedLive == InitOrdered /\ [][NextOrdered]_vars /\ WF_vars(OrderedStart)

\* the plugins of the batch that are left waiting for a dependency
LeftWaiting ==
    {n \in Names : plugins[n].manifest.auto_start /\ plugins[n].status = "WaitingDependencies"}

\* C20: start_plugins_ordered makes at most as many passes as the batch has
\* plugins (cycles and unknown dependencies included) and returns; the
\* iteration cap never ends it; a pass without progress returns StartFailed
\* with exactly the plugins of the batch left in WaitingDependencies.
T_C20 ==
    /\ [](batch.pc \in {"start_while", "start_inner"}
            => batch.iterations <= batch.max_iterations - ExtraIterations)
    /\ [](batch.pc = "start_while" /\ batch.remaining # <<>>
            => batch.iterations < batch.max_iterations)
    /\ [][(/\ batch.pc = "start_inner"
           /\ batch.i > Len(batch.remaining)
           /\ ~batch.progress
           /\ batch' # batch)
          => /\ batch'.pc = "idle"
             /\ result'.res = "StartFailed"
             /\ SeqToSet(result'.list) = LeftWaiting
             /\ Len(result'.list) = Cardinality(LeftWaiting)]_vars
    /\ (batch.pc \in {"start_while", "start_inner"} ~> batch.pc = "idle")

\* the batch ended on a pass without progress, after a pass that started a
\* plugin, and reported the two plugins of the cycle
W_C20 ==
    /\ batch.pc = "idle"
    /\ result.res = "StartFailed"
    /\ Len(result.list) = 2
    /\ SeqToSet(result.list) = LeftWaiting
    /\ \E n \in Names : plugins[n].status = "Running"

\* =================================================================
\* Ordered start: spawn errors
\* =================================================================
\* the turn of the inner loop that takes remaining[i] out of the batch
\* without starting it: its spawn failed
SpawnFailsInBatch(n) ==
    /\ batch.pc = "start_inner"
    /\ batch.i <= Len(batch.remaining)
    /\ batch.remaining[batch.i] = n
    /\ batch' # batch
    /\ n \notin SeqToSet(batch'.done)
    /\ n \notin SeqToSet(batch'.remaining)

\* the step in which start_plugins_ordered returns
BatchStartReturns ==
    /\ batch.pc \in {"start_while", "start_inner"}
    /\ batch'.pc = "idle"

bridge_timeout_elapses ==
    /\ now + BridgeTimeoutSecs <= MaxBridgeSecs
    /\ now' = now + BridgeTimeoutSecs
    /\ UNCHANGED <<bridgeVars, supervisorVars, registryVars, auxVars>>

NextRouting ==
    \/ \E r \in Requests, ok \in BOOLEAN : send_command_insert(r, ok)
    \/ \E r \in Requests, ok \in BOOLEAN : send_command_publish(r, ok)
    \/ \E r \in Requests : send_command_await(r)
    \/ \E r \in Requests : send_command_dropped(r)
    \/ \E id \in ResponseIds : handle_response(id)
    \/ bridge_timeout_elapses

SpecRouting == Init /\ [][NextRouting]_vars

IsOperatorOp(n) ==
    \/ \E ok \in BOOLEAN : start_plugin(n, ok)
    \/ \E o \in StopOutcomes : stop_plugin(n, o)
    \/ \E o \in StopOutcomes, ok \in BOOLEAN : restart_plugin(n, o, ok)

\* C25 (as claimed): start, stop and restart of a name the supervisor does
\* not know each return NotFound, answered with status 404, and leave every
\* plugin instance unchanged.
CE_C25 ==
    [][\A n \in OperatorNames \ Names :
          IsOperatorOp(n)
          => /\ result'.res = "NotFound"
             /\ plugin_endpoint_status(result'.res) = 404
             /\ plugins' = plugins]_vars

\* =================================================================
\* Graceful stop in time, and the handlers that take the manager's mutex
\* =================================================================
\* the sleep between two try_wait polls of PluginInstance::stop
PollIntervalMs == 100
\* Duration::from_secs(shutdown_timeout_seconds)
MsPerSec == 1000
ShutdownTimeoutSeconds == {1, 2}
\* process.kill() is std::process::Child::kill, which sends SIGKILL
ChildKillSignal == "SIGKILL"

StopManifests ==
    { [a |-> Manifest("a", TRUE, FALSE, <<>>, 10) @@ [shutdown_timeout_seconds |-> s]] :
        s \in ShutdownTimeoutSeconds }

InitStop == InitWith(StopManifests)

\* the manager's mutex is held by the caller of stop_plugin for the whole stop
MutexHeld == stopping.pc # "idle"

\* waited: the handler was parked in lock() before it answered
Http_response(handler, status) ==
    [pc |-> "idle", handler |-> handler, status |-> status, waited |-> FALSE]

\* POST /plugins/{name}/start
start_plugin_endpoint(name, spawnOk) ==
    /\ http.pc = "idle"
    /\ IF MutexHeld
       THEN /\ http' = Http_response("start_plugin", 503)
            /\ UNCHANGED <<plugins, result>>
       ELSE IF name \notin Names
       THEN /\ result' = Res("NotFound")
            /\ http' = Http_response("start_plugin", plugin_endpoint_status("NotFound"))
            /\ UNCHANGED plugins
       ELSE LET r == start(plugins[name], spawnOk, now)
            IN /\ plugins' = [plugins EXCEPT ![name] = r.inst]
               /\ result' = Res(r.res)
               /\ http' = Http_response("start_plugin", plugin_endpoint_status(r.res))
    /\ UNCHANGED <<batch, now, bridgeVars, registryVars, stopping, tasks, arg, ret>>

\* POST /plugins/{name}/stop up to the first try_wait of PluginInstance::stop:
\* try_lock, the lookup, process.take(), status Stopping, the first kill
stop_plugin_endpoint(name, killOk) ==
    /\ http.pc = "idle"
    /\ IF MutexHeld
       THEN /\ http' = Http_response("stop_plugin", 503)
            /\ UNCHANGED <<plugins, result, stopping>>
       ELSE IF name \notin Names
       THEN /\ result' = Res("NotFound")
            /\ http' = Http_response("stop_plugin", plugin_endpoint_status("NotFound"))
            /\ UNCHANGED <<plugins, stopping>>
       ELSE IF plugins[name].process = NoProcess
       THEN /\ plugins' = [plugins EXCEPT ![name].status = "Stopped"]
            /\ result' = Res("Ok")
            /\ http' = Http_response("stop_plugin", plugin_endpoint_status("Ok"))
            /\ UNCHANGED stopping
       ELSE IF ~killOk
       THEN /\ plugins' = [plugins EXCEPT ![name].process = NoProcess,
                                          ![name].status = "Failed"]
            /\ result' = Res("StartFailed")
            /\ http' = Http_response("stop_plugin", plugin_endpoint_status("StartFailed"))
            /\ UNCHANGED stopping
       ELSE /\ plugins' = [plugins EXCEPT ![name].process = NoProcess,
                                          ![name].status = "Stopping"]
            /\ stopping' = [pc |-> "poll", name |-> name,
                            timeout_ms |-> plugins[name].manifest.shutdown_timeout_seconds * MsPerSec,
                            elapsed |-> 0,
                            child |-> plugins[name].process,
                            exited_at |-> IF plugins[name].process = "exited"
                                          THEN Some(0) ELSE None,
                            signals |-> <<[sig |-> ChildKillSignal, at |-> 0]>>]
            /\ http' = Http_response("stop_plugin", 0)
            /\ UNCHANGED result
    /\ UNCHANGED <<batch, now, bridgeVars, registryVars, tasks, arg, ret>>

\* one turn of the loop of PluginInstance::stop: try_wait, then the timeout
\* test, then the sleep
stop_poll(waitOk) ==
    /\ stopping.pc = "poll"
    /\ LET name == stopping.name IN
       IF ~waitOk
       THEN /\ plugins' = [plugins EXCEPT ![name].status = "Failed"]
            /\ result' = Res("StartFailed")
            /\ stopping' = [stopping EXCEPT !.pc = "done"]
       ELSE IF stopping.exited_at # None
       THEN /\ plugins' = [plugins EXCEPT ![name].status = "Stopped"]
            /\ result' = Res("Ok")
            /\ stopping' = [stopping EXCEPT !.pc = "done"]
       ELSE IF stopping.elapsed > stopping.timeout_ms
       THEN /\ plugins' = [plugins EXCEPT ![name].status = "Killed"]
            /\ result' = Res("Ok")
            /\ stopping' = [stopping EXCEPT
                               !.pc = "done", !.child = "killed",
                               !.signals = Append(@, [sig |-> ChildKillSignal,
                                                      at |-> stopping.elapsed])]
       ELSE /\ stopping' = [stopping EXCEPT !.pc = "sleep"]
            /\ UNCHANGED <<plugins, result>>
    /\ UNCHANGED <<batch, now, bridgeVars, registryVars, http, tasks, arg, ret>>

\* the end of thread::sleep(100 ms)
stop_wake ==
    /\ stopping.pc = "sleep"
    /\ stopping' = [stopping EXCEPT !.pc = "poll", !.elapsed = @ + PollIntervalMs]
    /\ UNCHANGED <<supervisorVars, now, bridgeVars, registryVars, http, tasks, arg, ret>>

\* the child exits d ms into the sleep
stop_child_exits(d) ==
    /\ stopping.pc = "sleep"
    /\ stopping.exited_at = None
    /\ d \in 1..PollIntervalMs
    /\ stopping' = [stopping EXCEPT !.child = "exited",
                                    !.exited_at = Some(stopping.elapsed + d)]
    /\ UNCHANGED <<supervisorVars, now, bridgeVars, registryVars, http, tasks, arg, ret>>

\* stop_plugin returns: the guard is dropped and the endpoint answers
stop_return ==
    /\ stopping.pc = "done"
    /\ stopping' = Stop_idle
    /\ http' = IF http.pc = "blocked" THEN http
               ELSE Http_response("stop_plugin", plugin_endpoint_status(result.res))
    /\ UNCHANGED <<supervisorVars, now, bridgeVars, registryVars, tasks, arg, ret>>

\* GET /plugins: app.plugins.lock()
list_plugins_endpoint ==
    /\ http.pc = "idle"
    /\ http' = IF MutexHeld
               THEN [pc |-> "blocked", handler |-> "list_plugins", status |-> 0, waited |-> TRUE]
               ELSE Http_response("list_plugins", 200)
    /\ UNCHANGED <<supervisorVars, now, bridgeVars, registryVars, stopping, tasks, arg, ret>>

\* GET /system/health: get_health calls plugins.lock()
get_system_health ==
    /\ http.pc = "idle"
    /\ http' = IF MutexHeld
               THEN [pc |-> "blocked", handler |-> "system_health", status |-> 0, waited |-> TRUE]
               ELSE Http_response("system_health", 200)
    /\ UNCHANGED <<supervisorVars, now, bridgeVars, registryVars, stopping, tasks, arg, ret>>

\* a handler waiting in lock() gets the mutex once it is free
lock_acquired ==
    /\ http.pc = "blocked"
    /\ ~MutexHeld
    /\ http' = [http EXCEPT !.pc = "idle", !.status = 200]
    /\ UNCHANGED <<supervisorVars, now, bridgeVars, registryVars, stopping, tasks, arg, ret>>

\* the child exits while no stop is under way
stop_child_exit(n) ==
    /\ ~MutexHeld
    /\ child_exit(n)

NextStop ==
    \/ \E n \in OperatorNames, ok \in BOOLEAN : start_plugin_endpoint(n, ok)
    \/ \E n \in OperatorNames, ok \in BOOLEAN : stop_plugin_endpoint(n, ok)
    \/ \E ok \in BOOLEAN : stop_poll(ok)
    \/ stop_wake
    \/ \E d \in {1, PollIntervalMs} : stop_child_exits(d)
    \/ stop_return
    \/ list_plugins_endpoint
    \/ get_system_health
    \/ lock_acquired
    \/ \E n \in Names : stop_child_exit(n)

SpecStop == InitStop /\ [][NextStop]_vars

\* the child had not exited when the shutdown timeout had elapsed
AliveAtTimeout ==
    \/ stopping.exited_at = None
    \/ stopping.exited_at[1] > stopping.timeout_ms

\* C22 (as claimed): a stop ends Killed if and only if the child has still
\* not exited when the shutdown timeout has elapsed since the termination
\* signal, a child that exits at or before the timeout ends Stopped, and no
\* forced kill is sent before the timeout has elapsed.
CE_C22 ==
    (/\ stopping.pc = "done"
     /\ plugins[stopping.name].status \in {"Killed", "Stopped"})
    => /\ plugins[stopping.name].status = "Killed" <=> AliveAtTimeout
       /\ \A k \in 1..Len(stopping.signals) :
             stopping.signals[k].sig = "SIGKILL"
             => stopping.signals[k].at >= stopping.timeout_ms

\* C26 (as claimed): no operator HTTP handler waits for the plugin-manager
\* mutex; while another task holds it a handler answers 503.
CE_C26 == http.pc # "blocked"

\* =================================================================
\* Agent registry: eviction of agents not heard of for hours
\* =================================================================
\* time::Duration::hours
SecsPerHour == 3600

\* AgentRegistry::cleanup_stale_agents: the map after retain.  No task, loop
\* or endpoint of the kernel calls it.
cleanup_stale_agents(ags, t, max_age_hours) ==
    LET cutoff == t - max_age_hours * SecsPerHour
        kept == {a \in DOMAIN ags : ~(ags[a].last_seen < cutoff)}
    IN [a \in kept |-> ags[a]]

\* an hour in which the kernel hears of no agent
quiet_hour ==
    /\ now + SecsPerHour <= MaxQuietHours * SecsPerHour
    /\ now' = now + SecsPerHour
    /\ UNCHANGED <<registryVars, supervisorVars, bridgeVars, auxVars>>

\* a pass of the monitoring loop (start_agent_monitoring)
MonitoringPass ==
    \/ sweep_scan
    \/ sweep_mark
    \/ sweep_save
    \/ sweep_save_write

NextEviction ==
    \/ \E id \in AgentIds : handle_agent_registration(id)
    \/ listener_save
    \/ listener_save_write
    \/ \E id \in AgentIds, st \in HeartbeatStatuses : handle_agent_heartbeat(id, st)
    \/ MonitoringPass
    \/ quiet_hour

\* the monitoring loop never stops and time goes on
SpecEviction ==
    /\ Init
    /\ [][NextEviction]_vars
    /\ WF_vars(MonitoringPass)
    /\ WF_vars(listener_save \/ listener_save_write)
    /\ WF_vars(quiet_hour)

\* the thresholds the maintenance may be configured with
EvictionHours == 1..(MaxQuietHours - 1)

\* agent id has been silent for longer than h hours
SilentFor(id, h) ==
    /\ id \in DOMAIN agents
    /\ id \notin DOMAIN cleanup_stale_agents(agents, now, h)

Evicted(id) ==
    /\ id \notin DOMAIN agents
    /\ snapshot # None => id \notin DOMAIN snapshot[1]

\* C27 (as claimed): an agent silent for longer than the eviction threshold
\* is eventually removed from the registry and from the snapshot by the
\* periodic maintenance (unless it is heard of again).
CE_C27 ==
    \A id \in AgentIds : \A h \in EvictionHours :
       SilentFor(id, h) ~> (Evicted(id) \/ ~SilentFor(id, h))

\* =================================================================
\* Background loops and their errors
\* =================================================================
\* spawn_mqtt_listener up to its loop: the two subscribes
spawn_mqtt_listener(subscribed, notes_subscribed) ==
    /\ tasks.listener = "subscribing"
    /\ tasks' = IF subscribed
                THEN [tasks EXCEPT !.listener = "running", !.notes = notes_subscribed]
                ELSE [tasks EXCEPT !.listener = "exited"]
    /\ UNCHANGED <<supervisorVars, bridgeVars, registryVars, now, stopping, http, arg, ret>>

\* eventloop.poll() returns an error: log, then sleep 2 s
mqtt_poll_error ==
    /\ tasks.listener = "running"
    /\ tasks.errors < MaxLoopErrors
    /\ tasks' = [tasks EXCEPT !.listener = "backoff", !.errors = @ + 1]
    /\ UNCHANGED <<supervisorVars, bridgeVars, registryVars, now, stopping, http, arg, ret>>

mqtt_backoff_end ==
    /\ tasks.listener = "backoff"
    /\ tasks' = [tasks EXCEPT !.listener = "running"]
    /\ UNCHANGED <<supervisorVars, bridgeVars, registryVars, now, stopping, http, arg, ret>>

\* eventloop.poll() returns a publish on the notes response topic
mqtt_poll_response(request_id) ==
    /\ tasks.listener = "running"
    /\ tasks.notes
    /\ handle_response(request_id)

\* save_agents of the monitoring loop fails: the error is logged
sweep_save_failed ==
    /\ sweeper.pc = "save_write"
    /\ sweeper' = Task_idle
    /\ UNCHANGED <<agents, snapshot, listener, now, supervisorVars, bridgeVars, busVars, auxVars>>

\* the loop of start_agent_monitoring
agent_monitoring_loop ==
    /\ tasks.sweeper = "running"
    /\ \/ MonitoringPass
       \/ sweep_save_failed

\* the loop of spawn_plugin_health_monitor
plugin_health_monitor_loop(spawned) ==
    /\ tasks.monitor = "running"
    /\ health_check_all(spawned)

NextLoops ==
    \/ \E ok \in BOOLEAN, nok \in BOOLEAN : spawn_mqtt_listener(ok, nok)
    \/ mqtt_poll_error
    \/ mqtt_backoff_end
    \/ \E id \in ResponseIds : mqtt_poll_response(id)
    \/ send_command_insert(1, TRUE)
    \/ send_command_publish(1, TRUE)
    \/ handle_agent_registration("x")
    \/ listener_save
    \/ listener_save_write
    \/ agent_monitoring_loop
    \/ \E sp \in SUBSET Names : plugin_health_monitor_loop(sp)
    \/ \E n \in Names, ok \in BOOLEAN : start_plugin(n, ok)
    \/ \E n \in Names : child_exit(n)

SpecLoops == Init /\ [][NextLoops]_vars

\* C28 (as claimed): none of the background loops (bus listener, stale
\* sweeper, plugin health monitor) ever exits because of an error.
CE_C28 ==
    /\ tasks.listener # "exited"
    /\ tasks.sweeper # "exited"
    /\ tasks.monitor # "exited"

\* =================================================================
\* Agent host: the allow-list of run_command
\* =================================================================
\* a command line is the sequence of its characters
CommandChars == {"l", "s", "o", "f", ";", " "}
Commands == UNION {[1..n -> CommandChars] : n \in 0..MaxCommandLen}

safe_commands ==
    << <<"d", "i", "r">>, <<"l", "s">>, <<"w", "h", "o", "a", "m", "i">>,
       <<"h", "o", "s", "t", "n", "a", "m", "e">>, <<"d", "a", "t", "e">>,
       <<"u", "p", "t", "i", "m", "e">>, <<"p", "s">>,
       <<"t", "a", "s", "k", "l", "i", "s", "t">> >>

\* str::starts_with
starts_with(str, prefix) ==
    /\ Len(prefix) <= Len(str)
    /\ SubSeq(str, 1, Len(prefix)) = prefix

is_safe(command) ==
    \E k \in 1..Len(safe_commands) : starts_with(command, safe_commands[k])

Reply_of(status, code, executed) ==
    [status |-> status, code |-> code, executed |-> executed]

\* the parameters of the run_command request: no command, or a command line
InitAllowList ==
    /\ InitRest(LifecycleManifests)
    /\ arg \in {None} \cup {Some(c) : c \in Commands}

\* spawned: the shell could be started; succeeded: its exit status.
\* executed: the command line handed to the shell
execute_shell_command(spawned, succeeded) ==
    /\ ret = None
    /\ ret' = IF arg = None
              THEN Some(Reply_of("error", "INVALID_PARAMETERS", None))
              ELSE IF ~is_safe(arg[1])
              THEN Some(Reply_of("error", "UNSAFE_COMMAND", None))
              ELSE IF ~spawned
              THEN Some(Reply_of("error", "EXECUTION_ERROR", None))
              ELSE IF succeeded
              THEN Some(Reply_of("success", "", arg))
              ELSE Some(Reply_of("error", "COMMAND_FAILED", arg))
    /\ UNCHANGED <<supervisorVars, bridgeVars, registryVars, now, stopping, http, tasks, arg>>

NextAllowList ==
    \E spawned \in BOOLEAN, succeeded \in BOOLEAN : execute_shell_command(spawned, succeeded)

SpecAllowList == InitAllowList /\ [][NextAllowList]_vars

\* the command a command line names: its first word
FirstSpace(command) ==
    IF \E i \in 1..Len(command) : command[i] = " "
    THEN CHOOSE i \in 1..Len(command) :
            command[i] = " " /\ \A j \in 1..(i - 1) : command[j] # " "
    ELSE Len(command) + 1
NamedCommand(command) == SubSeq(command, 1, FirstSpace(command) - 1)

\* C29 (as claimed): a run_command request is executed only if the command
\* it names is a member of the allow-list; every other request is answered
\* UNSAFE_COMMAND and nothing is executed.
CE_C29 ==
    (ret # None /\ arg # None)
    => IF NamedCommand(arg[1]) \in SeqToSet(safe_commands)
       THEN TRUE
       ELSE ret[1].code = "UNSAFE_COMMAND" /\ ret[1].executed = None

\* =================================================================
\* Contract registry: the name derived from a topic
\* =================================================================
\* a topic is the sequence of its pieces; "/" is the separator
TopicPieces == {"/", "symbion", "x"}
Topics == UNION {[1..n -> TopicPieces] : n \in 0..MaxTopicLen}
TopicPrefix == <<"symbion">>

RECURSIVE split(_)
\* str::split('/'): the segments, the empty ones included
split(topic) ==
    IF \A i \in 1..Len(topic) : topic[i] # "/"
    THEN <<topic>>
    ELSE LET i == CHOOSE k \in 1..Len(topic) :
                     topic[k] = "/" /\ \A j \in 1..(k - 1) : topic[j] # "/"
         IN <<SubSeq(topic, 1, i - 1)>> \o split(SubSeq(topic, i + 1, Len(topic)))

\* mutant: only topics of exactly three segments take the dotted form
extract_contract_name_exactly_three(topic) ==
    LET parts == split(topic) IN
    IF Len(parts) = 3 /\ parts[1] = TopicPrefix
    THEN parts[2] \o <<".">> \o parts[3]
    ELSE parts[Len(parts)]

extract_contract_name(topic) ==
    LET parts == split(topic) IN
    IF Len(parts) >= 3 /\ parts[1] = TopicPrefix
    THEN parts[2] \o <<".">> \o parts[3]
    ELSE parts[Len(parts)]

InitContracts ==
    /\ InitRest(LifecycleManifests)
    /\ arg \in Topics

\* load_contracts_from_dir derives the name of a contract from its topic
load_contract ==
    /\ ret = None
    /\ ret' = Some(extract_contract_name(arg))
    /\ UNCHANGED <<supervisorVars, bridgeVars, registryVars, now, stopping, http, tasks, arg>>

NextContracts == load_contract

SpecContracts == InitContracts /\ [][NextContracts]_vars

\* the segments of a topic, from the positions of its separators
Separators(topic) == {i \in 1..Len(topic) : topic[i] = "/"}
SegmentCount(topic) == Cardinality(Separators(topic)) + 1
\* the position of the k-th separator; 0 and Len + 1 stand for the two ends
SeparatorAt(topic, k) ==
    IF k = 0 THEN 0
    ELSE IF k = SegmentCount(topic) THEN Len(topic) + 1
    ELSE CHOOSE p \in Separators(topic) :
            Cardinality({q \in Separators(topic) : q <= p}) = k
Segment(topic, k) ==
    SubSeq(topic, SeparatorAt(topic, k - 1) + 1, SeparatorAt(topic, k) - 1)

\* C30: for a topic of at least three segments whose first segment is the
\* fixed prefix, the derived contract name is the second segment, a dot and
\* the third segment; for every other topic it is the last segment.
T_C30 ==
    ret # None
    => ret[1] = IF SegmentCount(arg) >= 3 /\ Segment(arg, 1) = TopicPrefix
                THEN Segment(arg, 2) \o <<".">> \o Segment(arg, 3)
                ELSE Segment(arg, SegmentCount(arg))

\* a name has been derived from a prefixed topic of four segments
W_C30 ==
    /\ ret # None
    /\ SegmentCount(arg) = 4
    /\ Segment(arg, 1) = TopicPrefix
    /\ Segment(arg, 2) # <<>>
    /\ Segment(arg, 3) # <<>>
    /\ Segment(arg, 4) # <<>>
    /\ ret[1] = Segment(arg, 2) \o <<".">> \o Segment(arg, 3)

\* =================================================================
\* The pending map in the long run
\* =================================================================
\* a call whose five seconds fit into the time the clock covers
send_command_insert_in_time(r, serialized) ==
    /\ now + BridgeTimeoutSecs <= MaxBridgeSecs
    /\ send_command_insert(r, serialized)

\* the five seconds pass once no call is inside its publish
timeout_elapses_after_publish ==
    /\ \A r \in Requests : requests[r].pc # "publishing"
    /\ bridge_timeout_elapses

NextPending ==
    \/ \E r \in Requests, ok \in BOOLEAN : send_command_insert_in_time(r, ok)
    \/ \E r \in Requests, ok \in BOOLEAN : send_command_publish(r, ok)
    \/ \E r \in Requests : send_command_await(r)
    \/ \E r \in Requests : send_command_dropped(r)
    \/ \E id \in ResponseIds : handle_response(id)
    \/ timeout_elapses_after_publish

\* a call that is not cancelled runs on, and time passes
SpecPending ==
    /\ Init
    /\ [][NextPending]_vars
    /\ \A r \in Requests :
          /\ WF_vars(\E ok \in BOOLEAN : send_command_publish(r, ok))
          /\ WF_vars(send_command_await(r))
    /\ WF_vars(timeout_elapses_after_publish)

\* C36 (as claimed): every entry of the pending map is eventually removed,
\* also when the HTTP caller is cancelled or the reply never arrives.
CE_C36 ==
    \A r \in Requests : (r \in pending) ~> (r \notin pending)

\* =================================================================
\* Concurrent writes of the registry snapshot
\* =================================================================
\* the tasks that are inside tokio::fs::write of save_agents
Writers == {t \in {sweeper, listener} : t.pc = "save_write"}

boot_auto_start ==
    /\ \A n \in Names : plugins[n] = PluginInstance_new(plugins[n].manifest)
    /\ auto_start_plugins

\* the steps of stop_plugins_ordered once shutdown_all has called it
StopBatchRuns ==
    \/ stop_ordered_while
    \/ \E o \in StopOutcomes : stop_ordered_inner(o)
    \/ \E os \in [Names -> StopOutcomes] : stop_ordered_pass_end(os)

NextShutdown ==
    \/ boot_auto_start
    \/ start_ordered_while
    \/ \E ok \in BOOLEAN : start_ordered_inner(ok)
    \/ start_ordered_pass_end
    \/ shutdown_all
    \/ StopBatchRuns
    \/ \E n \in OperatorNames, ok \in BOOLEAN : start_plugin(n, ok)
    \/ \E n \in OperatorNames, o \in StopOutcomes : stop_plugin(n, o)
    \/ \E n \in Names : child_exit(n)
    \/ \E sp \in SUBSET Names : health_check_all(sp)

\* shutdown_all is a synchronous call: once entered it runs to its return
SpecShutdown == InitOrdered /\ [][NextShutdown]_vars /\ WF_vars(StopBatchRuns)

InShutdown == batch.pc \in {"stop_while", "stop_inner"}
ShutdownCalled == Idle /\ batch'.pc = "stop_while"
ShutdownReturns == InShutdown /\ batch'.pc = "idle"
\* how many times name occurs in the sequence of calls
Count(calls, name) == Cardinality({k \in 1..Len(calls) : calls[k] = name})

\* C38: when shutdown_all returns no plugin is Running or Starting and none
\* holds a child handle; stop has been called exactly once on every plugin
\* that was Running or Starting when shutdown_all was called, and on no
\* other; and shutdown_all returns for every dependency graph, cycles
\* included.
T_C38 ==
    /\ [][ShutdownCalled
          => batch'.targets = {n \in Names : plugins[n].status \in {"Running", "Starting"}}]_vars
    /\ [][ShutdownReturns
          => /\ \A n \in Names :
                   /\ plugins'[n].status \notin {"Running", "Starting"}
                   /\ plugins'[n].process = NoProcess
                   /\ Count(result'.calls, n) = IF n \in batch.targets THEN 1 ELSE 0
             /\ \A k \in 1..Len(result'.calls) : result'.calls[k] \in Names]_vars
    /\ InShutdown ~> Idle

\* shutdown_all has returned after the forced stop of two running plugins
\* that depend on each other, one of them killed after its timeout
W_C38 ==
    /\ Idle
    /\ result.res = "Ok"
    /\ "calls" \in DOMAIN result
    /\ \E m, n \in Names :
          /\ m # n
          /\ n \in DependsOn(m)
          /\ m \in DependsOn(n)
          /\ {m, n} \subseteq result.targets
          /\ plugins[m].status = "Killed"
          /\ plugins[n].status = "Stopped"
    /\ \A n \in Names : plugins[n].process = NoProcess

\* =================================================================
\* The agent host answers the commands it receives
\* =================================================================
\* the agent id of the host under test
HostId == "x"
\* the match of process_command
ImplementedCommands ==
    {"shutdown", "reboot", "hibernate", "kill_process", "run_command", "get_metrics"}
\* the command types publishers may send: the kernel's and one no host knows
HostCommandTypes == CommandTypes \cup {"self_update"}
CommandIds == {1, 2}
\* what the executed system command may do
ExecOutcomes == {"success", "failed", "execution_error"}
\* serde_json::to_string(&response) and mqtt_client.publish(..)
SendOutcomes == {"ok", "serialize_error", "publish_error"}

\* the payloads a publisher may put on the host's command topic; parses: it
\* deserializes into IncomingCommand
HostCommands ==
    {[topic |-> command_topic(HostId), parses |-> FALSE, command_id |-> 0,
      agent_id |-> "", command_type |-> ""]}
    \cup [topic : {command_topic(HostId)}, parses : {TRUE}, command_id : CommandIds,
          agent_id : {HostId, "z"}, command_type : HostCommandTypes]

\* the code an implemented command reports when the system command fails
FailureCode(command_type) ==
    CASE command_type = "shutdown" -> "SHUTDOWN_FAILED"
      [] command_type = "reboot" -> "REBOOT_FAILED"
      [] command_type = "hibernate" -> "HIBERNATE_FAILED"
      [] command_type = "kill_process" -> "KILL_FAILED"
      [] command_type = "run_command" -> "COMMAND_FAILED"
      [] command_type = "get_metrics" -> "METRICS_ERROR"

\* execute_shutdown and its siblings: status and error code
execute(command_type, outcome) ==
    IF command_type \notin ImplementedCommands
    THEN [status |-> "error", code |-> Some("UNKNOWN_COMMAND")]
    ELSE CASE outcome = "success" -> [status |-> "success", code |-> None]
           [] outcome = "failed" -> [status |-> "error", code |-> Some(FailureCode(command_type))]
           [] outcome = "execution_error" -> [status |-> "error", code |-> Some("EXECUTION_ERROR")]

\* mutant: the response names the agent the command was addressed to
CommandResponse_to_addressee(host_id, incoming, outcome) ==
    LET e == execute(incoming.command_type, outcome)
    IN [seq |-> incoming.seq, command_id |-> incoming.command_id,
        agent_id |-> incoming.agent_id, status |-> e.status, code |-> e.code]

\* the CommandResponse process_command builds; seq tells which received
\* message it answers
CommandResponse(host_id, incoming, outcome) ==
    LET e == execute(incoming.command_type, outcome)
    IN [seq |-> incoming.seq, command_id |-> incoming.command_id,
        agent_id |-> host_id, status |-> e.status, code |-> e.code]

\* the event loop task: a publish arrives and is forwarded to the main loop
\* when its topic starts with the command prefix
event_loop_poll(m) ==
    /\ issued < MaxCommands
    /\ issued' = issued + 1
    /\ arg' = IF forwards_command(m.topic)
              THEN Append(arg, m @@ [seq |-> issued + 1])
              ELSE arg
    /\ UNCHANGED <<supervisorVars, now, bridgeVars, agents, snapshot, sweeper, listener,
                   bus, reply, stopping, http, tasks, ret>>

\* the command arm of the select loop: recv, then process_command; reply is
\* the Result process_command returns, which run only logs
process_command(outcome, sent) ==
    /\ arg # <<>>
    /\ arg' = Tail(arg)
    /\ LET cmd == Head(arg) IN
       IF ~cmd.parses
       THEN /\ outcome = "success"
            /\ sent = "ok"
            /\ reply' = [res |-> "Err", command_id |-> None, body |-> None]
            /\ UNCHANGED ret
       ELSE /\ cmd.command_type \notin ImplementedCommands => outcome = "success"
            /\ IF sent = "ok"
               THEN /\ ret' = Append(ret, CommandResponse(HostId, cmd, outcome))
                    /\ reply' = [res |-> "Ok", command_id |-> Some(cmd.command_id),
                                 body |-> None]
               ELSE /\ reply' = [res |-> "Err", command_id |-> Some(cmd.command_id),
                                 body |-> None]
                    /\ UNCHANGED ret
    /\ UNCHANGED <<supervisorVars, now, bridgeVars, agents, snapshot, sweeper, listener,
                   bus, issued, stopping, http, tasks>>

NextAgentHost ==
    \/ \E m \in HostCommands : event_loop_poll(m)
    \/ \E o \in ExecOutcomes, s \in SendOutcomes : process_command(o, s)

SpecAgentHost == Init /\ [][NextAgentHost]_vars

\* the main loop takes a command that parses from the channel
ProcessesParsed == arg # <<>> /\ Head(arg).parses /\ arg' = Tail(arg)

HandleManifests ==
    { [a |-> Manifest("a", TRUE, rof, <<>>, 10) @@ [shutdown_timeout_seconds |-> 1]] :
        rof \in BOOLEAN }

InitHandles == InitWith(HandleManifests)

\* POST /plugins/{name}/restart: try_lock, then restart_plugin
restart_plugin_endpoint(name, outcome, spawnOk) ==
    /\ http.pc = "idle"
    /\ IF MutexHeld
       THEN /\ http' = Http_response("restart_plugin", 503)
            /\ UNCHANGED <<plugins, result>>
       ELSE IF name \notin Names
       THEN /\ result' = Res("Panic")
            /\ http' = Http_response("restart_plugin", plugin_endpoint_status("Panic"))
            /\ UNCHANGED plugins
       ELSE /\ plugins[name].restart_count < MaxRestarts
            /\ outcome \in StopOutcomesOf(plugins[name])
            /\ LET r == restart_instance(plugins[name], outcome, spawnOk, now)
               IN /\ plugins' = [plugins EXCEPT ![name] = r.inst]
                  /\ result' = Res(r.res)
                  /\ http' = Http_response("restart_plugin", plugin_endpoint_status(r.res))
    /\ UNCHANGED <<batch, now, bridgeVars, registryVars, stopping, tasks, arg, ret>>

\* the monitor's pass: plugins.lock() waits until no stop holds the mutex
monitor_health_pass(spawned) ==
    /\ ~MutexHeld
    /\ health_check_all(spawned)

\* the 30 seconds between two passes of the monitor
monitor_interval ==
    /\ ~MutexHeld
    /\ Tick

NextHandles ==
    \/ NextStop
    \/ \E n \in OperatorNames, o \in StopOutcomes, ok \in BOOLEAN :
          restart_plugin_endpoint(n, o, ok)
    \/ \E sp \in SUBSET Names : monitor_health_pass(sp)
    \/ monitor_interval

SpecHandles == InitHandles /\ [][NextHandles]_vars

\* C31 (as claimed): a plugin holds a child-process handle exactly when
\* its status is Starting, Running or Stopping.
CE_C31 ==
    \A n \in Names :
        plugins[n].process # NoProcess
           <=> plugins[n].status \in {"Starting", "Running", "Stopping"}

\* C31 (amended): a plugin holds a child-process handle exactly when its
\* status is Running; while a stop waits for the child the status is
\* Stopping and the handle has been taken out of the instance.
T_C31 ==
    \A n \in Names :
        plugins[n].process # NoProcess <=> plugins[n].status = "Running"

\* a stop is waiting for the child of a plugin that was restarted before
W_C31 ==
    \E n \in Names :
        /\ stopping.pc = "sleep"
        /\ stopping.name = n
        /\ plugins[n].status = "Stopping"
        /\ plugins[n].process = NoProcess
        /\ plugins[n].restart_count > 0

\* =================================================================
\* Breaker, handle and restart-time claims on the supervisor
\* =================================================================
\* C32 (as claimed): the breaker state agrees with restart_count: Normal
\* exactly when the count is at most 2, Degraded exactly when it is 3, 4 or
\* 5, CircuitOpen exactly when it is 6 or more.
CE_C32 ==
    \A n \in Names :
        /\ plugins[n].circuit_state = "Normal"
              <=> plugins[n].restart_count < DegradedThreshold
        /\ plugins[n].circuit_state = "Degraded"
              <=> plugins[n].restart_count \in DegradedThreshold..(CircuitOpenThreshold - 1)
        /\ plugins[n].circuit_state = "CircuitOpen"
              <=> plugins[n].restart_count >= CircuitOpenThreshold

\* C33 (as claimed): a plugin whose status is Stopped or Killed is left
\* unchanged by every health pass.
CE_C33 ==
    [][\A n \in Names :
          (IsHealthPass /\ plugins[n].status \in {"Stopped", "Killed"})
          => plugins'[n] = plugins[n]]_vars

\* C34 (as claimed): every restart attempt, made by the health pass or by
\* the operator, with a spawn that succeeds or fails, sets
\* last_restart_attempt to the time of the attempt.
CE_C34 ==
    [][\A n \in Names :
          (IsOperatorRestart(n) \/ HealthRestarts(n))
          => plugins'[n].last_restart_attempt = Some(now)]_vars

\* C35 (as claimed): a health pass that neither restarts nor rolls back a
\* plugin leaves that plugin's last_restart_attempt unchanged.
CE_C35 ==
    [][\A n \in Names :
          (IsHealthPass /\ ~HealthRestarts(n) /\ ~HealthRollsBack(n))
          => plugins'[n].last_restart_attempt = plugins[n].last_restart_attempt]_vars

\* C40: last_working_manifest is absent or equal to the current manifest.
T_C40 ==
    \A n \in Names :
        plugins[n].last_working_manifest \in {None, Some(plugins[n].manifest)}

\* a plugin is running again on its last working manifest after a rollback
\* that counted as one more restart
W_C40 ==
    \E n \in Names :
        /\ plugins[n].last_working_manifest = Some(plugins[n].manifest)
        /\ plugins[n].status = "Running"
        /\ plugins[n].restart_count > DegradedThreshold
====
